---- MODULE Spec2Model ----
(***************************************************************************)
(* Entity-resolution core of the genealogy pipeline: the Matcher           *)
(* (app/services/matcher.py), the Deduplicator                             *)
(* (app/services/deduplicator.py) and the person store they work on.       *)
(*                                                                         *)
(* Text is a sequence of character codes: 0 is the space, 1..26 are the    *)
(* lower-case letters a..z and 33..58 the upper-case letters A..Z.  The    *)
(* Python value None is the one-element sequence <<-1>>, which is no text. *)
(* An ISO date is the one-element sequence holding its day number.         *)
(* Scores are exact rationals <<numerator, denominator>> in lowest terms;  *)
(* the rounding of IEEE doubles is not modelled.                           *)
(***************************************************************************)
EXTENDS Integers, Sequences, FiniteSets, TLC

VARIABLES persons, raw_records, match_candidates, last, score_call,
          addresses, jobs, lead_call, date_call, relationships, norm_call,
          sources, queue

vars == <<persons, raw_records, match_candidates, last, score_call,
          addresses, jobs, lead_call, date_call, relationships, norm_call,
          sources, queue>>

----------------------------------------------------------------------------
(* Python values *)

None == <<-1>>

\* Python truthiness of an optional string or date: None and "" are falsy.
Truthy(v) == v /= None /\ v /= <<>>

Max(a, b) == IF a >= b THEN a ELSE b

Abs(a) == IF a < 0 THEN -a ELSE a

----------------------------------------------------------------------------
(* Exact rationals *)

RECURSIVE GCD(_, _)
GCD(a, b) == IF b = 0 THEN a ELSE GCD(b, a % b)

Rat(n, d) == LET g == GCD(Abs(n), d) IN <<n \div g, d \div g>>

RatAdd(x, y) == Rat(x[1] * y[2] + y[1] * x[2], x[2] * y[2])

RatMul(x, y) == Rat(x[1] * y[1], x[2] * y[2])

\* comparisons, over the least common denominator
RatGE(x, y) ==
    x[1] * (y[2] \div GCD(x[2], y[2])) >= y[1] * (x[2] \div GCD(x[2], y[2]))

RatGT(x, y) ==
    x[1] * (y[2] \div GCD(x[2], y[2])) > y[1] * (x[2] \div GCD(x[2], y[2]))

RatMax(x, y) == IF RatGE(x, y) THEN x ELSE y

\* the integer nearest to n / d (d > 0, n >= 0; ties go to the even neighbour)
RoundHalfEven(n, d, lo) ==
    IF 2 * (n - lo * d) > d THEN lo + 1
    ELSE IF 2 * (n - lo * d) < d THEN lo
    ELSE IF lo % 2 = 0 THEN lo ELSE lo + 1

\* round(x, 3), in thousandths
Round3(x) == RoundHalfEven(1000 * x[1], x[2], (1000 * x[1]) \div x[2])

----------------------------------------------------------------------------
(* str methods *)

LowerChar(c) == IF c > 32 THEN c - 32 ELSE c

\* str.lower()
Lower(s) == [i \in 1..Len(s) |-> LowerChar(s[i])]

RECURSIVE LStrip(_)
LStrip(s) == IF s /= <<>> /\ Head(s) = 0 THEN LStrip(Tail(s)) ELSE s

RECURSIVE RStrip(_)
RStrip(s) ==
    IF s /= <<>> /\ s[Len(s)] = 0 THEN RStrip(SubSeq(s, 1, Len(s) - 1)) ELSE s

\* str.strip()
Strip(s) == RStrip(LStrip(s))

\* str.split(): the maximal runs of non-space characters, in order
RECURSIVE SplitFrom(_, _, _, _)
SplitFrom(s, i, cur, acc) ==
    IF i > Len(s)
    THEN IF cur = <<>> THEN acc ELSE Append(acc, cur)
    ELSE IF s[i] = 0
         THEN SplitFrom(s, i + 1, <<>>, IF cur = <<>> THEN acc ELSE Append(acc, cur))
         ELSE SplitFrom(s, i + 1, Append(cur, s[i]), acc)

Split(s) == SplitFrom(s, 1, <<>>, <<>>)

\* s < t in the order of Python strings
RECURSIVE StrLess(_, _)
StrLess(s, t) ==
    IF t = <<>> THEN FALSE
    ELSE IF s = <<>> THEN TRUE
    ELSE IF Head(s) /= Head(t) THEN Head(s) < Head(t)
    ELSE StrLess(Tail(s), Tail(t))

RECURSIVE InsertSorted(_, _)
InsertSorted(tok, sorted) ==
    IF sorted = <<>> THEN <<tok>>
    ELSE IF StrLess(Head(sorted), tok) \/ Head(sorted) = tok
         THEN <<Head(sorted)>> \o InsertSorted(tok, Tail(sorted))
         ELSE <<tok>> \o sorted

\* sorted(tokens)
RECURSIVE SortTokens(_)
SortTokens(toks) ==
    IF toks = <<>> THEN <<>> ELSE InsertSorted(Head(toks), SortTokens(Tail(toks)))

\* " ".join(tokens)
RECURSIVE Join(_)
Join(toks) ==
    IF toks = <<>> THEN <<>>
    ELSE IF Len(toks) = 1 THEN Head(toks)
    ELSE Head(toks) \o <<0>> \o Join(Tail(toks))

\* f"{a} {b} {c}"
Format3(a, b, c) == a \o <<0>> \o b \o <<0>> \o c

----------------------------------------------------------------------------
(* rapidfuzz.fuzz, as the Matcher calls it *)

\* One row of the longest-common-subsequence table: row[j + 1] is the length for
\* the prefix of s ending in c and the first j characters of t; prev is the row
\* above and acc the part of this row computed so far.
RECURSIVE LcsRow(_, _, _, _)
LcsRow(prev, c, t, acc) ==
    LET j == Len(acc)
    IN  IF j > Len(t) THEN acc
        ELSE LcsRow(prev, c, t,
                    Append(acc, IF c = t[j] THEN prev[j] + 1
                                ELSE Max(prev[j + 1], acc[j])))

RECURSIVE LcsRows(_, _, _, _)
LcsRows(s, t, i, prev) ==
    IF Len(prev) = Len(t) + 1 /\ i > Len(s) THEN prev[Len(t) + 1]
    ELSE LcsRows(s, t, i + 1, LcsRow(prev, s[i], t, <<0>>))

\* length of a longest common subsequence
LCS(s, t) == LcsRows(s, t, 1, [j \in 1..(Len(t) + 1) |-> 0])

\* insertions plus deletions turning s into t
IndelDistance(s, t) == Len(s) + Len(t) - 2 * LCS(s, t)

\* 1 - dist / lensum, the normalized similarity (1 for lensum = 0)
NormDistance(dist, lensum) ==
    IF lensum = 0 THEN Rat(1, 1) ELSE Rat(lensum - dist, lensum)

\* fuzz.ratio(s, t) / 100
fuzz_ratio(s, t) == NormDistance(IndelDistance(s, t), Len(s) + Len(t))

\* fuzz.token_sort_ratio(s, t) / 100
fuzz_token_sort_ratio(s, t) ==
    fuzz_ratio(Join(SortTokens(Split(s))), Join(SortTokens(Split(t))))

TokenSet(s) == {Split(s)[i] : i \in 1..Len(Split(s))}

\* sorted(set of tokens)
RECURSIVE SortedOfSet(_)
SortedOfSet(S) ==
    IF S = {} THEN <<>>
    ELSE LET m == CHOOSE x \in S : \A y \in S : x = y \/ StrLess(x, y)
         IN  <<m>> \o SortedOfSet(S \ {m})

\* token_set_ratio once the lengths are known: the best of the three ratios
\* (the differences with each other, and each side with the intersection)
TokenSetResult(dist, sect_len, ab_len, ba_len, sep) ==
    IF sect_len = 0
    THEN NormDistance(dist, ab_len + ba_len)
    ELSE RatMax(NormDistance(dist, 2 * (sect_len + sep) + ab_len + ba_len),
                RatMax(NormDistance(sep + ab_len, 2 * sect_len + sep + ab_len),
                       NormDistance(sep + ba_len, 2 * sect_len + sep + ba_len)))

\* token_set_ratio once the token sets are split
TokenSetJoined(intersect, diff_ab_joined, diff_ba_joined) ==
    TokenSetResult(IndelDistance(diff_ab_joined, diff_ba_joined),
                   Len(Join(SortedOfSet(intersect))),
                   Len(diff_ab_joined), Len(diff_ba_joined),
                   IF intersect /= {} THEN 1 ELSE 0)

TokenSetRatio(tokens_a, tokens_b) ==
    IF tokens_a = {} \/ tokens_b = {} THEN Rat(0, 1)
    ELSE IF tokens_a \cap tokens_b /= {}
            /\ (tokens_a \subseteq tokens_b \/ tokens_b \subseteq tokens_a)
    THEN Rat(1, 1)
    ELSE TokenSetJoined(tokens_a \cap tokens_b,
                        Join(SortedOfSet(tokens_a \ tokens_b)),
                        Join(SortedOfSet(tokens_b \ tokens_a)))

\* fuzz.token_set_ratio(s, t) / 100
fuzz_token_set_ratio(s, t) == TokenSetRatio(TokenSet(s), TokenSet(t))

----------------------------------------------------------------------------
(* The texts of the model *)

hans == <<8, 1, 14, 19>>
hanz == <<8, 1, 14, 26>>
initial_f == <<6>>
schmidt == <<19, 3, 8, 13, 9, 4, 20>>
ott == <<15, 20, 20>>
Berlin == <<34, 5, 18, 12, 9, 14>>
Berlim == <<34, 5, 18, 12, 9, 13>>
Germany == <<39, 5, 18, 13, 1, 14, 25>>
germany == <<7, 5, 18, 13, 1, 14, 25>>
Poland == <<48, 15, 12, 1, 14, 4>>

Name(first_name, middle_name, last_name) ==
    [first_name |-> first_name, middle_name |-> middle_name, last_name |-> last_name]

\* the names and birth places a record or a person of the model can carry
NameTexts ==
    {Name(fn, mn, ln) : fn \in {<<>>, hans, hanz}, mn \in {<<>>, initial_f},
                        ln \in {<<>>, schmidt, ott}}

PlaceTexts == {None, Berlin, Berlim}

----------------------------------------------------------------------------
(* Settings (app/config.py); the thresholds are in hundredths *)

name_match_threshold == 85

auto_merge_threshold == 90

manual_review_threshold == 70

date_proximity_years == 2

Percent(n) == Rat(n, 100)

----------------------------------------------------------------------------
(* PersonMatcher (app/services/matcher.py) *)

\* lines 29-35: the boost for very similar last names
LastNameBoost(similarity, last_name1, last_name2) ==
    IF last_name1 /= <<>> /\ last_name2 /= <<>>
       /\ RatGT(fuzz_ratio(last_name1, last_name2), Rat(9, 10))
    THEN RatAdd(RatMul(similarity, Rat(7, 10)),
                RatMul(fuzz_ratio(last_name1, last_name2), Rat(3, 10)))
    ELSE similarity

\* lines 23-27: the similarity of the full names
FullNameSimilarity(full_name1, full_name2, last_name1, last_name2) ==
    IF full_name1 = <<>> \/ full_name2 = <<>> THEN Rat(0, 1)
    ELSE LastNameBoost(fuzz_token_sort_ratio(Lower(full_name1), Lower(full_name2)),
                       last_name1, last_name2)

calculate_name_similarity(name1, name2) ==
    FullNameSimilarity(
        Strip(Format3(name1.first_name, name1.middle_name, name1.last_name)),
        Strip(Format3(name2.first_name, name2.middle_name, name2.last_name)),
        Lower(name1.last_name), Lower(name2.last_name))

\* what a division by zero yields: the call raises
ZeroDivisionError == <<0, 0>>

\* a proximity that decays without the cut at the end of the window
calculate_date_proximity_uncut(date1, date2, max_years) ==
    LET diff_days == Abs(date1[1] - date2[1])
        max_days == max_years * 365
    IN  IF date1 = None /\ date2 = None THEN Rat(1, 1)
        ELSE IF date1 = None \/ date2 = None THEN Rat(1, 2)
        ELSE IF date1 = date2 THEN Rat(1, 1)
        ELSE IF max_days = 0 THEN ZeroDivisionError
        ELSE Rat(max_days - diff_days, max_days)

\* a proximity that is neutral only when the first date is absent
calculate_date_proximity_first_absent(date1, date2, max_years) ==
    LET diff_days == Abs(date1[1] - date2[1])
        max_days == max_years * 365
    IN  IF date1 = None THEN Rat(1, 2)
        ELSE IF date2 = None THEN Rat(0, 1)
        ELSE IF date1 = date2 THEN Rat(1, 1)
        ELSE IF diff_days > max_days THEN Rat(0, 1)
        ELSE Rat(max_days - diff_days, max_days)

calculate_date_proximity(date1, date2, max_years) ==
    LET diff_days == Abs(date1[1] - date2[1])
        max_days == max_years * 365
    IN  IF date1 = None /\ date2 = None THEN Rat(1, 1)
        ELSE IF date1 = None \/ date2 = None THEN Rat(1, 2)
        ELSE IF date1 = date2 THEN Rat(1, 1)
        ELSE IF diff_days > max_days THEN Rat(0, 1)
        ELSE IF max_days = 0 THEN ZeroDivisionError
        ELSE Rat(max_days - diff_days, max_days)

calculate_location_similarity(loc1, loc2) ==
    LET loc1_clean == Strip(Lower(loc1))
        loc2_clean == Strip(Lower(loc2))
    IN  IF loc1 = None /\ loc2 = None THEN Rat(1, 1)
        ELSE IF loc1 = None \/ loc2 = None THEN Rat(1, 2)
        ELSE IF loc1_clean = loc2_clean THEN Rat(1, 1)
        ELSE fuzz_token_set_ratio(loc1_clean, loc2_clean)

\* the two string similarities, computed once for the texts of the model
NameSimilarity ==
    [name1 \in NameTexts, name2 \in NameTexts |-> calculate_name_similarity(name1, name2)]

LocationSimilarity ==
    [loc1 \in PlaceTexts, loc2 \in PlaceTexts |-> calculate_location_similarity(loc1, loc2)]

country_agreement(country1, country2) ==
    IF Truthy(country1) /\ Truthy(country2)
    THEN IF Lower(country1) = Lower(country2) THEN Rat(1, 1) ELSE Rat(0, 1)
    ELSE Rat(1, 2)

\* lines 147-162: the weighted total and the details, rounded to thousandths
WeightedScore(name_score, date_score, place_score, country_score, total_score) ==
    [score |-> total_score,
     details |-> [name_score |-> Round3(name_score),
                  date_score |-> Round3(date_score),
                  place_score |-> Round3(place_score),
                  country_score |-> Round3(country_score),
                  total_score |-> Round3(total_score)]]

WeightedTotal(name_score, date_score, place_score, country_score) ==
    WeightedScore(name_score, date_score, place_score, country_score,
        RatAdd(RatAdd(RatMul(name_score, Rat(40, 100)), RatMul(date_score, Rat(30, 100))),
               RatAdd(RatMul(place_score, Rat(20, 100)),
                      RatMul(country_score, Rat(10, 100)))))

\* (total_score, details)
calculate_match_score(person1, person2) ==
    WeightedTotal(
        NameSimilarity[Name(person1.first_name, person1.middle_name, person1.last_name),
                       Name(person2.first_name, person2.middle_name, person2.last_name)],
        calculate_date_proximity(person1.birth_date, person2.birth_date,
                                 date_proximity_years),
        LocationSimilarity[person1.birth_place, person2.birth_place],
        country_agreement(person1.birth_country, person2.birth_country))

\* a match decided at the review threshold instead of the match threshold
is_match_at_review_threshold(person1, person2) ==
    LET m == calculate_match_score(person1, person2)
    IN  [is_match |-> RatGE(m.score, Percent(manual_review_threshold)),
         score |-> m.score, details |-> m.details]

\* (is_match, score, details) with the default threshold
is_match(person1, person2) ==
    LET m == calculate_match_score(person1, person2)
    IN  [is_match |-> RatGE(m.score, Percent(name_match_threshold)),
         score |-> m.score, details |-> m.details]

\* an auto-merge that excludes the threshold itself
should_auto_merge_above(score) == RatGT(score, Percent(auto_merge_threshold))

should_auto_merge(score) == RatGE(score, Percent(auto_merge_threshold))

should_review(score) ==
    /\ RatGE(score, Percent(manual_review_threshold))
    /\ ~RatGE(score, Percent(auto_merge_threshold))

----------------------------------------------------------------------------
(* Deduplicator (app/services/deduplicator.py) *)

\* matches.sort(key=score, reverse=True) is stable: equal scores keep their order
RECURSIVE InsertMatch(_, _)
InsertMatch(m, sorted) ==
    IF sorted = <<>> THEN <<m>>
    ELSE IF RatGT(Head(sorted).score, m.score)
         THEN <<Head(sorted)>> \o InsertMatch(m, Tail(sorted))
         ELSE <<m>> \o sorted

\* the matches left in the order the persons were read
SortMatchesKeepOrder(ms) == ms

RECURSIVE SortMatches(_)
SortMatches(ms) ==
    IF ms = <<>> THEN <<>>
    ELSE InsertMatch(Head(ms), SortMatches(Tail(ms)))

\* matches.append((person, score, details)) if is_match; a match names the
\* person by its position in existing_persons
AppendIfMatch(i, m, rest) ==
    IF m.is_match
    THEN <<[person |-> i, score |-> m.score, details |-> m.details]>> \o rest
    ELSE rest

\* the loop over existing_persons, from position i on
RECURSIVE CollectMatches(_, _, _)
CollectMatches(record_data, existing_persons, i) ==
    IF i > Len(existing_persons) THEN <<>>
    ELSE LET person == existing_persons[i]
             person_dict == [first_name |-> person.first_name,
                             middle_name |-> person.middle_name,
                             last_name |-> person.last_name,
                             birth_date |-> person.birth_date,
                             birth_place |-> person.birth_place,
                             birth_country |-> person.birth_country]
         IN  AppendIfMatch(i, is_match(record_data, person_dict),
                           CollectMatches(record_data, existing_persons, i + 1))

find_matches_for_record(record_data, existing_persons) ==
    SortMatches(CollectMatches(record_data, existing_persons, 1))

\* a merge in which the record's value wins
FillLastWriterWins(old, new) == IF Truthy(new) THEN new ELSE old

\* a merge that appends the record's value to a value already present
FillAppend(old, new) ==
    IF ~Truthy(old) /\ Truthy(new) THEN new
    ELSE IF Truthy(old) /\ Truthy(new) THEN old \o new
    ELSE old

\* the value a merge leaves in one field
Fill(old, new) == IF ~Truthy(old) /\ Truthy(new) THEN new ELSE old

merge_person_data(existing, new_data) ==
    [existing EXCEPT
        !.middle_name = Fill(@, new_data.middle_name),
        !.birth_date = Fill(@, new_data.birth_date),
        !.birth_place = Fill(@, new_data.birth_place),
        !.birth_city = Fill(@, new_data.birth_city),
        !.birth_state = Fill(@, new_data.birth_state),
        !.birth_country = Fill(@, new_data.birth_country),
        !.death_date = Fill(@, new_data.death_date),
        !.death_place = Fill(@, new_data.death_place),
        !.sex = Fill(@, new_data.sex)]

\* the new Person, with the id the flush gives it
create_person_from_data(data, id) ==
    [id |-> id,
     first_name |-> data.first_name,
     middle_name |-> data.middle_name,
     last_name |-> data.last_name,
     birth_date |-> data.birth_date,
     birth_place |-> data.birth_place,
     birth_city |-> data.birth_city,
     birth_state |-> data.birth_state,
     birth_country |-> data.birth_country,
     death_date |-> data.death_date,
     death_place |-> data.death_place,
     sex |-> data.sex,
     confidence_score |-> 100]

\* lines 110-117 and 148-155: a new person is added and the record linked to it
CreateBranch(branch, record_data, ps, mcs) ==
    [branch |-> branch,
     persons |-> Append(ps, create_person_from_data(record_data, Len(ps) + 1)),
     match_candidates |-> mcs,
     person_id |-> Len(ps) + 1]

\* lines 122-146: the record is merged into the best match; the review branch
\* also adds a MatchCandidate
MergeBranch(record_data, ps, mcs, best) ==
    LET best_match_person == ps[best.person]
        merged == [ps EXCEPT ![best.person] =
                       merge_person_data(best_match_person, record_data)]
        match_candidate == [person_a_id |-> best_match_person.id,
                            person_b_id |-> best_match_person.id,
                            similarity_score |-> best.score,
                            match_details |-> best.details,
                            match_status |-> "auto_merged_review"]
    IN  IF should_auto_merge(best.score)
        THEN [branch |-> "auto_merge", persons |-> merged,
              match_candidates |-> mcs, person_id |-> best_match_person.id]
        ELSE IF should_review(best.score)
        THEN [branch |-> "review", persons |-> merged,
              match_candidates |-> Append(mcs, match_candidate),
              person_id |-> best_match_person.id]
        ELSE CreateBranch("low_confidence", record_data, ps, mcs)

\* process_record once the matches are found
ResolveRecord(record_data, ps, mcs, matches) ==
    IF matches = <<>>
    THEN CreateBranch("create", record_data, ps, mcs)
    ELSE MergeBranch(record_data, ps, mcs, matches[1])

\* process_record on the store (ps, mcs): the branch taken, the store it leaves
\* and the id of the person it returns
process_record(record_data, ps, mcs) ==
    ResolveRecord(record_data, ps, mcs, find_matches_for_record(record_data, ps))

----------------------------------------------------------------------------
(* The normalized records the batches submit *)

MaxRecords == 3

HansSchmidt == Name(hans, <<>>, schmidt)

\* the fields the Matcher does not read: city, state, death date, death place, sex
Aux(city, state, ddate, dplace, sex) ==
    [birth_city |-> city, birth_state |-> state, death_date |-> ddate,
     death_place |-> dplace, sex |-> sex]

AuxNone == Aux(None, None, None, None, None)
AuxA == Aux(<<34>>, <<48>>, <<20000>>, <<34>>, <<45>>)
AuxC == Aux(<<35>>, None, <<21000>>, <<>>, <<>>)

Record(name, bdate, bplace, bcountry, aux) ==
    [first_name |-> name.first_name,
     middle_name |-> name.middle_name,
     last_name |-> name.last_name,
     birth_date |-> bdate,
     birth_place |-> bplace,
     birth_city |-> aux.birth_city,
     birth_state |-> aux.birth_state,
     birth_country |-> bcountry,
     death_date |-> aux.death_date,
     death_place |-> aux.death_place,
     sex |-> aux.sex]

\* one birth entry under several names
NameVariants ==
    {Record(n, <<0>>, Berlin, Germany, AuxNone) :
        n \in {HansSchmidt, Name(hans, initial_f, schmidt), Name(hans, <<>>, <<>>),
               Name(hanz, <<>>, <<>>), Name(hans, <<>>, ott)}}

\* one name, with parts of the birth entry unknown or the country different
SparseRecords ==
    {Record(HansSchmidt, None, None, None, AuxNone),
     Record(HansSchmidt, <<0>>, None, Germany, AuxNone),
     Record(HansSchmidt, <<0>>, Berlin, Poland, AuxNone)}

\* one name, with the birth entry written differently
NearRecords ==
    {Record(HansSchmidt, <<200>>, Berlin, Germany, AuxNone),
     Record(HansSchmidt, <<547>>, Berlin, Germany, AuxNone),
     Record(HansSchmidt, <<547>>, Berlim, Germany, AuxNone)}

\* one identity, with the fields the Matcher does not read
AuxRecords ==
    {Record(HansSchmidt, <<0>>, Berlin, Germany, a) : a \in {AuxA, AuxC}}

\* a birth entry whose payload carried no name
NamelessRecords == {Record(Name(<<>>, <<>>, <<>>), <<0>>, Berlin, Germany, AuxNone)}

Records ==
    NameVariants \cup SparseRecords \cup NearRecords \cup AuxRecords \cup NamelessRecords

\* the pairs calculate_match_score is applied to on its own
ScoreInputs ==
    {Record(n, d, p, c, AuxNone) :
        n \in {HansSchmidt, Name(hans, <<>>, <<>>), Name(hans, <<>>, ott),
               Name(<<>>, <<>>, <<>>)},
        d \in {None, <<0>>, <<200>>, <<800>>},
        p \in PlaceTexts,
        c \in {None, Germany, germany, Poland}}

----------------------------------------------------------------------------
(* The store and the processing of one record *)

NoRecord == Record(Name(<<>>, <<>>, <<>>), None, None, None, AuxNone)

NoCall == [state |-> "none", a |-> NoRecord, b |-> NoRecord, ab |-> <<>>, ba |-> <<>>]

\* no batch job is submitted, no address or relationship is stored, and neither
\* the lead scorer nor the date proximity is being called on its own
Idle ==
    /\ addresses = <<>>
    /\ jobs = <<>>
    /\ lead_call = [state |-> "none"]
    /\ date_call = [state |-> "none"]
    /\ relationships = <<>>
    /\ norm_call = [state |-> "none"]
    /\ sources = <<>>
    /\ queue = {}

Init ==
    /\ persons = <<>>
    /\ raw_records = <<>>
    /\ match_candidates = <<>>
    /\ last = [branch |-> "none", record |-> NoRecord, persons |-> <<>>,
               match_candidates |-> <<>>, person_id |-> 0]
    /\ score_call = NoCall
    /\ Idle

\* process_records_task, for one normalized record: the raw record is added,
\* process_record resolves it, and the session commits.  `last` keeps the
\* record, the store process_record read and what it returned.
ProcessRecord(person_data) ==
    /\ Len(raw_records) < MaxRecords
    /\ LET res == process_record(person_data, persons, match_candidates)
       IN  /\ persons' = res.persons
           /\ match_candidates' = res.match_candidates
           /\ raw_records' = Append(raw_records,
                  [id |-> Len(raw_records) + 1,
                   normalized_data |-> person_data,
                   processed |-> TRUE,
                   matched_person_id |-> res.person_id])
           /\ last' = [branch |-> res.branch, record |-> person_data,
                       persons |-> persons, match_candidates |-> match_candidates,
                       person_id |-> res.person_id]
    /\ UNCHANGED <<score_call, addresses, jobs, lead_call, date_call, relationships, norm_call,
                   sources, queue>>

Next == \E person_data \in Records : ProcessRecord(person_data)

Spec == Init /\ [][Next]_vars

----------------------------------------------------------------------------
(* process_record over a store that returns its persons in any order:         *)
(* db.query(Person).all() has no ORDER BY                                     *)

MaxOrderRecords == 3

\* one person born on four days, each as far from the one before as from the
\* one after, and the person with a middle initial
OrderRecords ==
    {Record(HansSchmidt, <<0>>, Berlin, Germany, AuxNone),
     Record(HansSchmidt, <<273>>, Berlin, Germany, AuxNone),
     Record(HansSchmidt, <<546>>, Berlin, Germany, AuxNone),
     Record(HansSchmidt, <<819>>, Berlin, Germany, AuxNone),
     Record(Name(hans, initial_f, schmidt), <<0>>, Berlin, Germany, AuxNone)}

\* the orders a query may return n rows in
Orders(n) == {order \in [1..n -> 1..n] : \A i, j \in 1..n : i /= j => order[i] /= order[j]}

\* the rows as the query returns them
Reordered(rows, order) == [i \in 1..Len(rows) |-> rows[order[i]]]

\* process_records_task for one normalized record, as ProcessRecord, with the
\* persons read in the order the store returns them
ProcessRecordInOrder(person_data, order) ==
    /\ Len(raw_records) < MaxOrderRecords
    /\ LET res == process_record(person_data, Reordered(persons, order), match_candidates)
       IN  /\ persons' = res.persons
           /\ match_candidates' = res.match_candidates
           /\ raw_records' = Append(raw_records,
                  [id |-> Len(raw_records) + 1,
                   normalized_data |-> person_data,
                   processed |-> TRUE,
                   matched_person_id |-> res.person_id])
           /\ last' = [branch |-> res.branch, record |-> person_data,
                       persons |-> Reordered(persons, order),
                       match_candidates |-> match_candidates,
                       person_id |-> res.person_id]
    /\ UNCHANGED <<score_call, addresses, jobs, lead_call, date_call, relationships, norm_call,
                   sources, queue>>

NextOrder ==
    \E person_data \in OrderRecords, order \in Orders(Len(persons)) :
        ProcessRecordInOrder(person_data, order)

SpecOrder == Init /\ [][NextOrder]_vars

----------------------------------------------------------------------------
(* calculate_match_score applied to a pair of records, in both orders *)

InitScore ==
    /\ persons = <<>>
    /\ raw_records = <<>>
    /\ match_candidates = <<>>
    /\ last = [branch |-> "none", record |-> NoRecord, persons |-> <<>>,
               match_candidates |-> <<>>, person_id |-> 0]
    /\ score_call \in {[state |-> "called", a |-> a, b |-> b, ab |-> <<>>, ba |-> <<>>] :
                          a \in ScoreInputs, b \in ScoreInputs}
    /\ Idle

ScoreBothWays ==
    /\ score_call.state = "called"
    /\ score_call' = [score_call EXCEPT
                         !.state = "returned",
                         !.ab = calculate_match_score(score_call.a, score_call.b),
                         !.ba = calculate_match_score(score_call.b, score_call.a)]
    /\ UNCHANGED <<persons, raw_records, match_candidates, last,
                   addresses, jobs, lead_call, date_call, relationships, norm_call,
                   sources, queue>>

SpecScore == InitScore /\ [][ScoreBothWays]_vars

----------------------------------------------------------------------------
(* Properties of process_record, stated on the step `last` records *)

IdentityFields ==
    {"first_name", "middle_name", "last_name", "birth_date", "birth_place",
     "birth_city", "birth_state", "birth_country", "death_date", "death_place", "sex"}

\* a record has been processed
Stepped == last.branch /= "none"

\* the record was merged into an existing person
Merged == last.branch \in {"auto_merge", "review"}

\* the raw record the step added
LastRaw == raw_records[Len(raw_records)]

\* the total score of the step's record against the i-th person it read
ScoreOf(i) == calculate_match_score(last.record, last.persons[i]).score

\* the i-th person scores at least as high as every person the step read
IsBest(i) ==
    /\ i \in 1..Len(last.persons)
    /\ \A j \in 1..Len(last.persons) : RatGE(ScoreOf(i), ScoreOf(j))

\* the best-scoring person's total lies in the review band [0.70, 0.90)
InReviewBand(score) ==
    /\ RatGE(score, Percent(manual_review_threshold))
    /\ ~RatGE(score, Percent(auto_merge_threshold))

\* the step left every person but person_id as it was, and added none
OnlyTouched(person_id) ==
    /\ Len(persons) = Len(last.persons)
    /\ \A i \in 1..Len(last.persons) : i /= person_id => persons[i] = last.persons[i]

\* C1: a merge never changes an identity field that already held a value:
\* every field of every person that was non-empty before a step holds the
\* same value after it, whatever the record carried.
C1_PopulatedFieldsKept ==
    \A i \in 1..Len(last.persons) : \A f \in IdentityFields :
        Truthy(last.persons[i][f]) => persons[i][f] = last.persons[i][f]

\* C1's case: a record was merged into a person that already held a different
\* non-empty value in one of the fields the record carries
C1_Witness ==
    /\ Merged
    /\ \E f \in IdentityFields :
          /\ Truthy(last.persons[last.person_id][f])
          /\ Truthy(last.record[f])
          /\ last.record[f] /= last.persons[last.person_id][f]

\* C2: when the best-scoring existing person's total lies in [0.70, 0.90), the
\* record is merged into that person, no person is added, the raw record is
\* linked to it, and exactly one MatchCandidate is added for later review.
C2_ReviewBandMerges ==
    Stepped =>
        \A i \in 1..Len(last.persons) :
            InReviewBand(ScoreOf(i)) /\ IsBest(i) =>
                /\ last.branch = "review"
                /\ IsBest(last.person_id)
                /\ OnlyTouched(last.person_id)
                /\ LastRaw.matched_person_id = last.person_id
                /\ Len(match_candidates) = Len(last.match_candidates) + 1

\* C3: a best total of exactly 0.70 takes the review branch: the record is
\* merged and one MatchCandidate is added; no new person is created.
C3_LowerBoundaryReviews ==
    Stepped =>
        \A i \in 1..Len(last.persons) :
            ScoreOf(i) = Percent(manual_review_threshold) /\ IsBest(i) =>
                /\ last.branch = "review"
                /\ Len(persons) = Len(last.persons)
                /\ Len(match_candidates) = Len(last.match_candidates) + 1

\* C4: a best total of exactly 0.90 is a plain auto-merge: the record is
\* merged into the best person, no person is added and no MatchCandidate is
\* created.
C4_UpperBoundaryAutoMerges ==
    Stepped =>
        \A i \in 1..Len(last.persons) :
            ScoreOf(i) = Percent(auto_merge_threshold) /\ IsBest(i) =>
                /\ last.branch = "auto_merge"
                /\ IsBest(last.person_id)
                /\ OnlyTouched(last.person_id)
                /\ persons[last.person_id] =
                       merge_person_data(last.persons[last.person_id], last.record)
                /\ LastRaw.matched_person_id = last.person_id
                /\ match_candidates = last.match_candidates

\* C4's case: the best total is exactly 0.90 and the step has merged the
\* record; the names differ (hans, hanz), so the total is 0.9 from a name
\* score of 3/4 with date, place and country equal
C4_Witness ==
    /\ Merged
    /\ ScoreOf(last.person_id) = Percent(auto_merge_threshold)
    /\ IsBest(last.person_id)
    /\ last.record.first_name /= last.persons[last.person_id].first_name
    /\ match_candidates = last.match_candidates

\* both countries are given and they differ
CountriesDiffer(record_data, person) ==
    /\ Truthy(record_data.birth_country)
    /\ Truthy(person.birth_country)
    /\ Lower(record_data.birth_country) /= Lower(person.birth_country)

\* C5: a record whose country differs from a person's (both given) scores
\* below the match threshold against that person and is never merged into
\* it: with no other match it becomes a new person.
C5_CountryMismatchNeverMerges ==
    Stepped =>
        \A i \in 1..Len(last.persons) :
            CountriesDiffer(last.record, last.persons[i]) =>
                /\ ~RatGE(ScoreOf(i), Percent(name_match_threshold))
                /\ ~(Merged /\ last.person_id = i)

\* no person the step read scores at or above the match threshold
NoneMatches ==
    \A i \in 1..Len(last.persons) : ~RatGE(ScoreOf(i), Percent(name_match_threshold))

\* C6: when no existing person scores at or above the match threshold, the
\* step adds exactly one person, with the record's identity fields and a
\* confidence_score of 100, links the raw record to the new person's id and
\* marks it processed; the persons that existed and the MatchCandidates are
\* left as they were.
C6_CreateDecision ==
    Stepped /\ NoneMatches =>
        /\ Len(persons) = Len(last.persons) + 1
        /\ SubSeq(persons, 1, Len(last.persons)) = last.persons
        /\ \A f \in IdentityFields : persons[Len(persons)][f] = last.record[f]
        /\ persons[Len(persons)].confidence_score = 100
        /\ LastRaw.matched_person_id = persons[Len(persons)].id
        /\ LastRaw.processed
        /\ match_candidates = last.match_candidates

\* C6's case: persons existed, one of them scored in [0.70, 0.85), none
\* reached the match threshold, and the step has added a person
C6_Witness ==
    /\ Stepped
    /\ NoneMatches
    /\ \E i \in 1..Len(last.persons) :
          RatGE(ScoreOf(i), Percent(manual_review_threshold))
    /\ Len(persons) = Len(last.persons) + 1

\* the best total is at or above the auto-merge threshold: some person the
\* step read scores that high
BestAutoMerges ==
    \E i \in 1..Len(last.persons) : RatGE(ScoreOf(i), Percent(auto_merge_threshold))

\* C7: when the best total is at or above the auto-merge threshold, the
\* record is merged into a highest-scoring person, the number of persons is
\* unchanged, the raw record is linked to that person's id and no
\* MatchCandidate is added.
C7_AutoMergeDecision ==
    Stepped /\ BestAutoMerges =>
        /\ last.branch = "auto_merge"
        /\ IsBest(last.person_id)
        /\ OnlyTouched(last.person_id)
        /\ persons[last.person_id] =
               merge_person_data(last.persons[last.person_id], last.record)
        /\ LastRaw.matched_person_id = persons[last.person_id].id
        /\ match_candidates = last.match_candidates

\* C7's case: two persons match the record, the later one scores strictly
\* higher and at or above the auto-merge threshold, and the step has merged
C7_Witness ==
    /\ last.branch = "auto_merge"
    /\ Len(last.persons) >= 2
    /\ last.person_id = 2
    /\ RatGE(ScoreOf(1), Percent(name_match_threshold))
    /\ RatGT(ScoreOf(2), ScoreOf(1))
    /\ LastRaw.matched_person_id = 2

\* C8: after a merge of a record into a person, every identity field that
\* was absent in the person and present in the record holds the record's
\* value.
C8_MergeFillsEveryAbsentField ==
    Merged =>
        \A f \in IdentityFields :
            ~Truthy(last.persons[last.person_id][f]) /\ Truthy(last.record[f]) =>
                persons[last.person_id][f] = last.record[f]

\* C9: merging the record a second time into the person a merge produced
\* leaves that person equal, field for field.
C9_MergeIdempotent ==
    Merged =>
        merge_person_data(persons[last.person_id], last.record)
            = persons[last.person_id]

\* C9's case: the merge has filled a field, and the record also carries a
\* value different from one the person already held
C9_Witness ==
    /\ Merged
    /\ persons[last.person_id] /= last.persons[last.person_id]
    /\ \E f \in IdentityFields :
          /\ Truthy(last.persons[last.person_id][f])
          /\ Truthy(last.record[f])
          /\ last.record[f] /= last.persons[last.person_id][f]

----------------------------------------------------------------------------
(* Properties of calculate_match_score, stated on SpecScore *)

\* C10: calculate_match_score(a, b) and calculate_match_score(b, a) return
\* the same total and the same breakdown.
C10_ScoreSymmetric ==
    score_call.state = "returned" =>
        /\ score_call.ab.score = score_call.ba.score
        /\ score_call.ab.details = score_call.ba.details

\* C10's case: the two records differ in what they leave out (a has no birth
\* date and no last name, b has no birth place and no country) and both
\* scores have been returned
C10_Witness ==
    /\ score_call.state = "returned"
    /\ score_call.a.birth_date = None /\ score_call.b.birth_date /= None
    /\ score_call.a.last_name = <<>> /\ score_call.b.last_name /= <<>>
    /\ score_call.a.birth_place /= None /\ score_call.b.birth_place = None
    /\ score_call.a.birth_country /= None /\ score_call.b.birth_country = None
    /\ score_call.ab.score = score_call.ba.score

----------------------------------------------------------------------------
(* process_records_task (app/tasks/celery_tasks.py): batch jobs that run      *)
(* concurrently, each in its own database session.  A session reads what is   *)
(* committed; what it adds or changes is pending until its commit.  Every     *)
(* step of a task below runs from one read of the store to the next commit.   *)

JobIds == {1, 2}

\* the records of the batch of job 1
MaxBatch == 2

\* the records of the batch of the job that runs beside it
MaxOtherBatch == 1

\* the comma of an address text
comma == 27

\* a JSON number in a payload field: a value that is no text and not None
JsonNumber == <<-2>>

IsText(v) == v /= None /\ v /= JsonNumber

\* "21 b, ab"
residence_text == <<1, 0, 2, comma, 0, 1, 2>>

\* the normalized person data of a source, with the residence fields the task
\* reads
WithResidence(data, residence) ==
    [first_name |-> data.first_name,
     middle_name |-> data.middle_name,
     last_name |-> data.last_name,
     birth_date |-> data.birth_date,
     birth_place |-> data.birth_place,
     birth_city |-> data.birth_city,
     birth_state |-> data.birth_state,
     birth_country |-> data.birth_country,
     death_date |-> data.death_date,
     death_place |-> data.death_place,
     sex |-> data.sex,
     residence |-> residence,
     last_residence |-> None]

\* one individual in three payloads: without a residence, with a middle initial
\* and a residence, and with a middle initial and a residence that is a number
BatchRecords ==
    {WithResidence(Record(HansSchmidt, <<0>>, Berlin, Germany, AuxNone), None),
     WithResidence(Record(Name(hans, initial_f, schmidt), <<0>>, Berlin, Germany, AuxNone),
                   residence_text),
     WithResidence(Record(Name(hans, initial_f, schmidt), <<0>>, Berlin, Germany, AuxNone),
                   JsonNumber)}

\* the batches of up to max records a job is submitted with: one normalized
\* record per source
Batches(max) == UNION {[1..n -> BatchRecords] : n \in 1..max}

\* list.split(','), from position i on
RECURSIVE SplitCommaFrom(_, _, _, _)
SplitCommaFrom(s, i, cur, acc) ==
    IF i > Len(s) THEN Append(acc, cur)
    ELSE IF s[i] = comma THEN SplitCommaFrom(s, i + 1, <<>>, Append(acc, cur))
    ELSE SplitCommaFrom(s, i + 1, Append(cur, s[i]), acc)

SplitComma(s) == SplitCommaFrom(s, 1, <<>>, <<>>)

\* lines 122-128: the Address of a residence text
ParseAddress(address_str, person_id, source_id) ==
    [person_id |-> person_id,
     street |-> SplitComma(address_str)[1],
     city |-> IF Len(SplitComma(address_str)) > 1
              THEN Strip(SplitComma(address_str)[2]) ELSE None,
     state |-> IF Len(SplitComma(address_str)) > 2
               THEN Strip(SplitComma(address_str)[3]) ELSE None,
     source_id |-> source_id]

\* nothing is pending in a session
NoPending ==
    [raw |-> <<>>, persons |-> <<>>, match_candidates |-> <<>>, addresses |-> <<>>,
     read |-> <<>>]

\* the store as a job last committed it
Checkpoint(ps, raws, mcs, addrs) ==
    [persons |-> ps, raw_records |-> raws, match_candidates |-> mcs, addresses |-> addrs]

\* ingest_records: the ProcessingJob as committed, and its task as queued
NewJob(batch) ==
    [status |-> "pending",
     total_records |-> Len(batch),
     records_processed |-> 0,
     result_data |-> None,
     error_message |-> None,
     pc |-> "queued",
     exception |-> None,
     persons_data |-> batch,
     k |-> 1,
     persons_created |-> 0,
     persons_merged |-> 0,
     addresses_created |-> 0,
     pending |-> NoPending,
     decisions |-> <<>>,
     checkpoint |-> Checkpoint(<<>>, <<>>, <<>>, <<>>)]

InitBatch ==
    /\ persons = <<>>
    /\ raw_records = <<>>
    /\ match_candidates = <<>>
    /\ addresses = <<>>
    /\ last = [branch |-> "none", record |-> NoRecord, persons |-> <<>>,
               match_candidates |-> <<>>, person_id |-> 0]
    /\ score_call = NoCall
    /\ lead_call = [state |-> "none"]
    /\ date_call = [state |-> "none"]
    /\ relationships = <<>>
    /\ norm_call = [state |-> "none"]
    /\ sources = <<>>
    /\ queue = {}
    /\ jobs \in {[j \in JobIds |-> NewJob(IF j = 1 THEN batch ELSE other)] :
                    batch \in Batches(MaxBatch), other \in Batches(MaxOtherBatch)}

\* the largest of a set of ids, 0 when there is none
MaxOf(S) == IF S = {} THEN 0 ELSE CHOOSE x \in S : \A y \in S : x >= y

\* the ids of a sequence of rows
IdsOf(rows) == {rows[i].id : i \in 1..Len(rows)}

\* db.flush() of a new Person: the id the sequence gives it, above every id
\* given so far, committed or pending
NextPersonId ==
    1 + MaxOf(IdsOf(persons)
              \cup UNION {{jobs[j].pending.persons[i].row.id :
                              i \in 1..Len(jobs[j].pending.persons)} : j \in DOMAIN jobs})

\* db.flush() of a new RawPersonRecord
NextRawId ==
    1 + MaxOf(IdsOf(raw_records)
              \cup UNION {IdsOf(jobs[j].pending.raw) : j \in DOMAIN jobs})

\* the row with an id
RowById(rows, id) == rows[CHOOSE i \in 1..Len(rows) : rows[i].id = id]

\* the Person process_record returned, as the session holds it: a new row
\* under its flushed id, or the row it read with the fields the merge filled
ResolvedPerson(res, read, next_id) ==
    IF res.branch \in {"create", "low_confidence"}
    THEN [kind |-> "insert",
          row |-> [res.persons[Len(res.persons)] EXCEPT !.id = next_id],
          before |-> [res.persons[Len(res.persons)] EXCEPT !.id = next_id]]
    ELSE [kind |-> "update",
          row |-> RowById(res.persons, res.person_id),
          before |-> RowById(read, res.person_id)]

\* line 119
address_str(person_data) ==
    IF Truthy(person_data.residence) THEN person_data.residence
    ELSE person_data.last_residence

\* line 113: person.id is not among the ids below it
CountsAsCreated(person_id, visible) ==
    person_id \notin {id \in IdsOf(visible) : id < person_id}

\* lines 98-130 for the k-th record of job j, given what process_record
\* returned and the person the session holds for it
Resolved(j, job, person_data, res, person, raw_id) ==
    [job EXCEPT
        !.pc = IF Truthy(address_str(person_data)) /\ ~IsText(address_str(person_data))
               THEN "except" ELSE "commit",
        !.exception =
               IF Truthy(address_str(person_data)) /\ ~IsText(address_str(person_data))
               THEN "TypeError" ELSE @,
        !.persons_created =
               IF CountsAsCreated(person.row.id, persons) THEN @ + 1 ELSE @,
        !.persons_merged =
               IF CountsAsCreated(person.row.id, persons) THEN @ ELSE @ + 1,
        !.addresses_created =
               IF IsText(address_str(person_data)) /\ Truthy(address_str(person_data))
               THEN @ + 1 ELSE @,
        !.pending =
            [raw |-> <<[id |-> raw_id,
                        source_id |-> <<j, job.k>>,
                        normalized_data |-> person_data,
                        processed |-> TRUE,
                        matched_person_id |-> person.row.id]>>,
             persons |-> <<person>>,
             match_candidates |-> res.match_candidates,
             addresses |->
                 IF IsText(address_str(person_data)) /\ Truthy(address_str(person_data))
                 THEN <<ParseAddress(address_str(person_data), person.row.id,
                                     <<j, job.k>>)>>
                 ELSE <<>>,
             read |-> persons],
        !.decisions = Append(@, [branch |-> res.branch, person_id |-> person.row.id])]

\* a resolution that finds no person in the pool, whatever is committed
ResolvedAgainstEmptyPool(j, person_data, res) ==
    Resolved(j, jobs[j], person_data, process_record(person_data, <<>>, <<>>),
             ResolvedPerson(process_record(person_data, <<>>, <<>>), persons,
                            NextPersonId),
             NextRawId)

ResolvedBy(j, person_data, res) ==
    Resolved(j, jobs[j], person_data, res,
             ResolvedPerson(res, persons, NextPersonId), NextRawId)

\* the rows of the store kept in the order of their ids
RECURSIVE InsertById(_, _)
InsertById(rows, row) ==
    IF rows = <<>> THEN <<row>>
    ELSE IF Head(rows).id < row.id THEN <<Head(rows)>> \o InsertById(Tail(rows), row)
    ELSE <<row>> \o rows

\* the UPDATE of a row: the columns the session changed
UpdateChanged(current, before, after) ==
    [f \in DOMAIN current |-> IF after[f] /= before[f] THEN after[f] ELSE current[f]]

\* a commit under a uniqueness constraint: a new person is refused when a
\* committed one scores at or above the auto-merge threshold against it
CommitPersonsUnique(ps, pending_persons) ==
    IF pending_persons = <<>> THEN ps
    ELSE IF pending_persons[1].kind = "insert"
    THEN IF \E i \in 1..Len(ps) :
               should_auto_merge(
                   calculate_match_score(pending_persons[1].row, ps[i]).score)
         THEN ps
         ELSE InsertById(ps, pending_persons[1].row)
    ELSE [i \in 1..Len(ps) |->
             IF ps[i].id = pending_persons[1].row.id
             THEN UpdateChanged(ps[i], pending_persons[1].before, pending_persons[1].row)
             ELSE ps[i]]

\* db.commit(): the pending persons written to the committed ones
CommitPersons(ps, pending_persons) ==
    IF pending_persons = <<>> THEN ps
    ELSE IF pending_persons[1].kind = "insert" THEN InsertById(ps, pending_persons[1].row)
    ELSE [i \in 1..Len(ps) |->
             IF ps[i].id = pending_persons[1].row.id
             THEN UpdateChanged(ps[i], pending_persons[1].before, pending_persons[1].row)
             ELSE ps[i]]

CommitRaw(raws, pending_raw) ==
    IF pending_raw = <<>> THEN raws ELSE InsertById(raws, pending_raw[1])

\* lines 39-45: the job is marked running and the change committed
TaskStart(j) ==
    /\ jobs[j].pc = "queued"
    /\ jobs' = [jobs EXCEPT ![j] =
                   [@ EXCEPT !.status = "running",
                             !.pc = "resolve",
                             !.checkpoint = Checkpoint(persons, raw_records,
                                                       match_candidates, addresses)]]
    /\ UNCHANGED <<persons, raw_records, match_candidates, addresses,
                   last, score_call, lead_call, date_call, relationships, norm_call,
                   sources, queue>>

\* lines 98-130 for the next record: the raw record is flushed, process_record
\* resolves it against the committed persons, the outcome is counted and the
\* address parsed; a residence that is no text raises in line 124
TaskResolve(j) ==
    /\ jobs[j].pc = "resolve"
    /\ jobs[j].k <= Len(jobs[j].persons_data)
    /\ jobs' = [jobs EXCEPT ![j] =
                   ResolvedBy(j, jobs[j].persons_data[jobs[j].k],
                              process_record(jobs[j].persons_data[jobs[j].k],
                                             persons, <<>>))]
    /\ UNCHANGED <<persons, raw_records, match_candidates, addresses,
                   last, score_call, lead_call, date_call, relationships, norm_call,
                   sources, queue>>

\* lines 132-133: the record is counted and the session committed
TaskCommit(j) ==
    /\ jobs[j].pc = "commit"
    /\ persons' = CommitPersons(persons, jobs[j].pending.persons)
    /\ raw_records' = CommitRaw(raw_records, jobs[j].pending.raw)
    /\ match_candidates' = match_candidates \o jobs[j].pending.match_candidates
    /\ addresses' = addresses \o jobs[j].pending.addresses
    /\ jobs' = [jobs EXCEPT ![j] =
                   [@ EXCEPT !.records_processed = @ + 1,
                             !.k = @ + 1,
                             !.pc = "resolve",
                             !.pending = NoPending,
                             !.checkpoint = Checkpoint(persons', raw_records',
                                                       match_candidates', addresses')]]
    /\ UNCHANGED <<last, score_call, lead_call, date_call, relationships, norm_call,
                   sources, queue>>

\* lines 135-150: the loop is over, the job is marked completed with its counts
TaskComplete(j) ==
    /\ jobs[j].pc = "resolve"
    /\ jobs[j].k > Len(jobs[j].persons_data)
    /\ jobs' = [jobs EXCEPT ![j] =
                   [@ EXCEPT !.status = "completed",
                             !.result_data =
                                 [persons_created |-> jobs[j].persons_created,
                                  persons_merged |-> jobs[j].persons_merged,
                                  addresses_created |-> jobs[j].addresses_created,
                                  relationships_created |-> 0],
                             !.pc = "done"]]
    /\ UNCHANGED <<persons, raw_records, match_candidates, addresses,
                   last, score_call, lead_call, date_call, relationships, norm_call,
                   sources, queue>>

\* lines 152-157: the handler marks the job failed and commits the session,
\* with whatever the failed record left pending in it
TaskFail(j) ==
    /\ jobs[j].pc = "except"
    /\ persons' = CommitPersons(persons, jobs[j].pending.persons)
    /\ raw_records' = CommitRaw(raw_records, jobs[j].pending.raw)
    /\ match_candidates' = match_candidates \o jobs[j].pending.match_candidates
    /\ addresses' = addresses \o jobs[j].pending.addresses
    /\ jobs' = [jobs EXCEPT ![j] =
                   [@ EXCEPT !.status = "failed",
                             !.error_message = jobs[j].exception,
                             !.pc = "done",
                             !.pending = NoPending]]
    /\ UNCHANGED <<last, score_call, lead_call, date_call, relationships, norm_call,
                   sources, queue>>

NextBatch ==
    \E j \in JobIds :
        \/ TaskStart(j)
        \/ TaskResolve(j)
        \/ TaskCommit(j)
        \/ TaskComplete(j)
        \/ TaskFail(j)

SpecBatch == InitBatch /\ [][NextBatch]_vars

----------------------------------------------------------------------------
(* Properties of the MatchCandidates process_record adds *)

\* C11: every MatchCandidate the Deduplicator stores is created with the
\* status "pending", and the status of every stored MatchCandidate is one of
\* pending, confirmed, rejected.
C11_CandidateStatusPending ==
    \A i \in 1..Len(match_candidates) :
        /\ match_candidates[i].match_status \in {"pending", "confirmed", "rejected"}
        /\ i > Len(last.match_candidates) =>
               match_candidates[i].match_status = "pending"

----------------------------------------------------------------------------
(* Properties of process_records_task, stated on SpecBatch *)

CreateBranches == {"create", "low_confidence"}

\* the task of job j has resolved a record that its session has not committed
Resolving(j) == jobs[j].pc \in {"commit", "except"}

\* the number of decisions of job j whose outcome is committed
CommittedDecisions(j) ==
    IF Resolving(j) THEN Len(jobs[j].decisions) - 1
    ELSE Len(jobs[j].decisions)

\* the committed raw records of job j
RawOf(j) == {i \in 1..Len(raw_records) : raw_records[i].source_id[1] = j}

\* the record job j resolved last
CurrentRecord(j) == jobs[j].persons_data[Len(jobs[j].decisions)]

\* the persons the earlier records of job j's batch created
CreatedEarlier(j) ==
    {jobs[j].decisions[i].person_id :
        i \in {n \in 1..(Len(jobs[j].decisions) - 1) :
                  jobs[j].decisions[n].branch \in CreateBranches}}

\* C12: the records of a batch are resolved one at a time in submission
\* order, each resolution reads a pool that holds the persons the earlier
\* records of the batch created, and a record that scores at or above the
\* match threshold against such a person does not create another person.
C12_InBatchOrdering ==
    \A j \in JobIds :
        /\ {raw_records[i].source_id[2] : i \in RawOf(j)} = 1..Cardinality(RawOf(j))
        /\ \A a \in RawOf(j), b \in RawOf(j) :
               raw_records[a].source_id[2] < raw_records[b].source_id[2] => a < b
        /\ Resolving(j) =>
               /\ CreatedEarlier(j) \subseteq IdsOf(jobs[j].pending.read)
               /\ \A id \in CreatedEarlier(j) :
                      RatGE(calculate_match_score(
                                CurrentRecord(j),
                                RowById(jobs[j].pending.read, id)).score,
                            Percent(name_match_threshold))
                      => jobs[j].decisions[Len(jobs[j].decisions)].branch
                             \notin CreateBranches

\* C12's case: a batch runs alone, its first record created a person, and its
\* second record, which matches that person, has been merged into it
C12_Witness ==
    \E j \in JobIds :
        /\ \A o \in JobIds \ {j} : jobs[o].pc = "queued"
        /\ jobs[j].pc = "commit"
        /\ Len(jobs[j].decisions) = 2
        /\ jobs[j].decisions[1].branch = "create"
        /\ jobs[j].decisions[2].branch = "auto_merge"
        /\ jobs[j].decisions[2].person_id = jobs[j].decisions[1].person_id
        /\ Len(persons) = 1

\* records a and b describe one individual: they score at or above the
\* auto-merge threshold against each other
SameIndividual(a, b) == should_auto_merge(calculate_match_score(a, b).score)

\* the i-th decision of job j was to create a person, and it is committed
CommittedCreate(j, i) ==
    /\ i \in 1..CommittedDecisions(j)
    /\ jobs[j].decisions[i].branch \in CreateBranches

\* C13: nothing locks the person pool and nothing constrains it: when
\* records of two batches describe the same individual and both were
\* resolved by a create decision, both commits stand and the store holds two
\* persons for that individual.
C13_CrossBatchRace ==
    \A j1 \in JobIds, j2 \in JobIds :
        \A i1 \in 1..Len(jobs[j1].decisions), i2 \in 1..Len(jobs[j2].decisions) :
            /\ j1 /= j2
            /\ CommittedCreate(j1, i1)
            /\ CommittedCreate(j2, i2)
            /\ SameIndividual(jobs[j1].persons_data[i1], jobs[j2].persons_data[i2])
            => /\ jobs[j1].decisions[i1].person_id /= jobs[j2].decisions[i2].person_id
               /\ {jobs[j1].decisions[i1].person_id, jobs[j2].decisions[i2].person_id}
                      \subseteq IdsOf(persons)

\* C13's case: two concurrent batches have each committed a create decision
\* for one record of the same individual, and the two persons they left score
\* at or above the auto-merge threshold against each other
C13_Witness ==
    /\ CommittedCreate(1, 1)
    /\ CommittedCreate(2, 1)
    /\ SameIndividual(jobs[1].persons_data[1], jobs[2].persons_data[1])
    /\ Len(persons) = 2
    /\ SameIndividual(persons[1], persons[2])

\* job j runs alone: no other job has started
RunsAlone(j) == \A o \in JobIds \ {j} : jobs[o].pc = "queued"

\* the rows of before are all among the rows of after, unchanged
Kept(before, after) ==
    \A i \in 1..Len(before) : \E n \in 1..Len(after) : after[n] = before[i]

\* C14: when the k-th record of a batch raises, no later record of the batch
\* is processed, the job ends failed with the error's message, and what was
\* committed for the records before it (persons, merges, raw-record links,
\* addresses) stays committed, unchanged.
C14_FailureKeepsCommitted ==
    \A j \in JobIds :
        jobs[j].status = "failed" /\ RunsAlone(j) =>
            /\ \A i \in RawOf(j) : raw_records[i].source_id[2] <= jobs[j].k
            /\ jobs[j].error_message = "TypeError"
            /\ jobs[j].records_processed = jobs[j].k - 1
            /\ Kept(jobs[j].checkpoint.persons, persons)
            /\ Kept(jobs[j].checkpoint.raw_records, raw_records)
            /\ Kept(jobs[j].checkpoint.addresses, addresses)
            /\ Kept(jobs[j].checkpoint.match_candidates, match_candidates)

\* the number of decisions of job j that took one of the branches
CountDecisions(j, branches) ==
    Cardinality({i \in 1..Len(jobs[j].decisions) :
                    jobs[j].decisions[i].branch \in branches})

\* C15: when a batch job completes, the persons_created it reports is the
\* number of its records resolved by a create decision and the
\* persons_merged it reports the number resolved by a merge (auto-merge or
\* review merge).
C15_OutcomeCounts ==
    \A j \in JobIds :
        jobs[j].status = "completed" =>
            /\ jobs[j].result_data.persons_created = CountDecisions(j, CreateBranches)
            /\ jobs[j].result_data.persons_merged
                   = CountDecisions(j, {"auto_merge", "review"})

----------------------------------------------------------------------------
(* LeadScorer (app/services/lead_scorer.py) as GET /leads/{person_id} calls   *)
(* it (app/api/endpoints/leads.py), over a store of persons, relationships,   *)
(* raw records and addresses.                                                 *)

MaxPersons == 4

MaxSources == 4

MaxAddresses == 2

\* "West Germany"
WestGermany == <<55, 5, 19, 20, 0, 39, 5, 18, 13, 1, 14, 25>>

\* sub in s
Contains(s, sub) ==
    \E i \in 0..(Len(s) - Len(sub)) : SubSeq(s, i + 1, i + Len(sub)) = sub

\* person.birth_country and "Germany" in person.birth_country
BornInGermany(person) ==
    Truthy(person.birth_country) /\ Contains(person.birth_country, Germany)

\* db.query(Person).filter(Person.id == id).first(): no row or one
PersonFirst(id) ==
    IF id \in IdsOf(persons) THEN <<RowById(persons, id)>> ELSE <<>>

\* the parent relationships of a person, in the order of the query
parent_rels(person_id) ==
    SelectSeq(relationships,
              LAMBDA rel : rel.person_id = person_id /\ rel.relationship_type = "parent")

\* the persons the relationships of a list point at
RelatedIds(rels) == [i \in 1..Len(rels) |-> rels[i].related_person_id]

\* the parents of every person of a list that has a row, in the order the
\* nested loops visit them
RECURSIVE ParentIdsOfAll(_, _)
ParentIdsOfAll(ids, i) ==
    IF i > Len(ids) THEN <<>>
    ELSE (IF PersonFirst(ids[i]) /= <<>> THEN RelatedIds(parent_rels(ids[i])) ELSE <<>>)
         \o ParentIdsOfAll(ids, i + 1)

\* a loop over person ids that returns the first person born in Germany;
\* `inspected` are the ids whose rows the loop has loaded
RECURSIVE FirstBornInGermany(_, _, _)
FirstBornInGermany(ids, i, inspected) ==
    IF i > Len(ids) THEN [found |-> <<>>, inspected |-> inspected]
    ELSE IF /\ PersonFirst(ids[i]) /= <<>>
            /\ BornInGermany(PersonFirst(ids[i])[1])
         THEN [found |-> PersonFirst(ids[i]), inspected |-> inspected \cup {ids[i]}]
         ELSE FirstBornInGermany(ids, i + 1, inspected \cup {ids[i]})

\* has_german_ancestor: the person itself, then its parents
has_german_ancestor(person) ==
    \/ BornInGermany(person)
    \/ FirstBornInGermany(RelatedIds(parent_rels(person.id)), 1, {}).found /= <<>>

\* a search over one generation after another, for `hops` generations
RECURSIVE SearchGenerations(_, _, _)
SearchGenerations(ids, hops, inspected) ==
    IF hops = 0 \/ FirstBornInGermany(ids, 1, inspected).found /= <<>>
    THEN (IF hops = 0 THEN [found |-> <<>>, inspected |-> inspected]
          ELSE FirstBornInGermany(ids, 1, inspected))
    ELSE SearchGenerations(ParentIdsOfAll(ids, 1), hops - 1,
                           FirstBornInGermany(ids, 1, inspected).inspected)

\* a search that goes on to the parents of the grandparents
find_german_ancestor_three_hops(person) ==
    IF BornInGermany(person) THEN [found |-> <<person>>, inspected |-> {person.id}]
    ELSE SearchGenerations(RelatedIds(parent_rels(person.id)), 3, {person.id})

\* find_german_ancestor: the person itself, then its parents, then the parents
\* of its parents; <<>> is None, and `inspected` the persons it looked at
find_german_ancestor(person) ==
    IF BornInGermany(person) THEN [found |-> <<person>>, inspected |-> {person.id}]
    ELSE IF FirstBornInGermany(RelatedIds(parent_rels(person.id)), 1,
                               {person.id}).found /= <<>>
    THEN FirstBornInGermany(RelatedIds(parent_rels(person.id)), 1, {person.id})
    ELSE FirstBornInGermany(
             ParentIdsOfAll(RelatedIds(parent_rels(person.id)), 1), 1,
             FirstBornInGermany(RelatedIds(parent_rels(person.id)), 1,
                                {person.id}).inspected)

\* person.raw_records
RawRecordsOf(person_id) ==
    SelectSeq(raw_records, LAMBDA raw : raw.matched_person_id = person_id)

\* person.addresses
AddressesOf(person_id) ==
    SelectSeq(addresses, LAMBDA address : address.person_id = person_id)

\* the relationships with the person at either end
RelationshipsTouching(person_id) ==
    SelectSeq(relationships,
              LAMBDA rel : rel.person_id = person_id \/ rel.related_person_id = person_id)

Min(a, b) == IF a <= b THEN a ELSE b

\* the cap of the lead score
MaxScore == 100

calculate_lead_score(person) ==
    Min((IF has_german_ancestor(person) THEN 25 ELSE 0)
        + (IF Len(RawRecordsOf(person.id)) >= 3 THEN 20
           ELSE IF Len(RawRecordsOf(person.id)) = 2 THEN 10 ELSE 0)
        + (IF Len(RelationshipsTouching(person.id)) >= 3 THEN 15
           ELSE IF Len(RelationshipsTouching(person.id)) >= 1 THEN 7 ELSE 0)
        + (IF AddressesOf(person.id) /= <<>>
           THEN 15 + (IF Len(AddressesOf(person.id)) > 1 THEN 10 ELSE 0) ELSE 0)
        + (IF ~Truthy(person.death_date) THEN 10 ELSE 0)
        + (IF Truthy(person.birth_date) THEN 5 ELSE 0),
        MaxScore)

\* a classification with strict comparisons
get_data_confidence_strict(score, sources_count) ==
    IF score > 80 /\ sources_count > 3 THEN "high"
    ELSE IF score > 60 /\ sources_count > 2 THEN "medium"
    ELSE "low"

get_data_confidence(score, sources_count) ==
    IF score >= 80 /\ sources_count >= 3 THEN "high"
    ELSE IF score >= 60 /\ sources_count >= 2 THEN "medium"
    ELSE "low"

\* the relationships a store may hold: a chain of parents from person 1 up, a
\* parent edge from person 3 back to person 1, a second parent of person 1, and
\* a spouse of person 1
CandidateRelationships ==
    [i \in 1..(MaxPersons - 1) |->
        [id |-> i, person_id |-> i, related_person_id |-> i + 1,
         relationship_type |-> "parent"]]
    \o <<[id |-> MaxPersons, person_id |-> 3, related_person_id |-> 1,
          relationship_type |-> "parent"],
         [id |-> MaxPersons + 1, person_id |-> 1, related_person_id |-> 3,
          relationship_type |-> "parent"],
         [id |-> MaxPersons + 2, person_id |-> 1, related_person_id |-> MaxPersons,
          relationship_type |-> "spouse"]>>

\* a Person row of the store with the fields the scorer reads
LeadPerson(id, birth_country, birth_date, death_date) ==
    create_person_from_data(
        Record(HansSchmidt, birth_date, None, birth_country,
               Aux(None, None, death_date, None, None)), id)

\* a store: every person's birth country, the relationships, and for person 1
\* the dates, the raw records matched to it and its addresses
LeadStore(countries, rels, birth_date, death_date, n_sources, n_addresses) ==
    [persons |-> [i \in 1..MaxPersons |->
                     IF i = 1 THEN LeadPerson(1, countries[1], birth_date, death_date)
                     ELSE LeadPerson(i, countries[i], None, None)],
     relationships |-> SelectSeq(CandidateRelationships, LAMBDA rel : rel.id \in rels),
     raw_records |-> [i \in 1..n_sources |->
                         [id |-> i, normalized_data |-> NoRecord, processed |-> TRUE,
                          matched_person_id |-> 1]],
     addresses |-> [i \in 1..n_addresses |-> ParseAddress(residence_text, 1, i)]]

\* the store holds what a LeadStore lists
StoreIs(store) ==
    /\ persons = store.persons
    /\ relationships = store.relationships
    /\ raw_records = store.raw_records
    /\ addresses = store.addresses

\* every relationship graph over persons born in Germany, in "germany" or
\* nowhere known, around a person 1 with one source
GraphStores ==
    \E countries \in [1..MaxPersons -> {None, germany, Germany}],
       rels \in SUBSET (1..(MaxPersons + 2)) :
        StoreIs(LeadStore(countries, rels, <<0>>, None, 1, 0))

\* every count of sources, addresses and dates of a person 1 with the
\* relationships that touch it
TableStores ==
    \E birth_country \in {None, germany, Germany, WestGermany},
       rels \in SUBSET {1, MaxPersons, MaxPersons + 1, MaxPersons + 2},
       birth_date \in {None, <<0>>}, death_date \in {None, <<200>>},
       n_sources \in 0..MaxSources, n_addresses \in 0..MaxAddresses :
        StoreIs(LeadStore([i \in 1..MaxPersons |-> IF i = 1 THEN birth_country ELSE None],
                          rels, birth_date, death_date, n_sources, n_addresses))

\* nothing has called the scorer
NoLead ==
    [state |-> "none", person_id |-> 0, status |-> 0, score |-> 0,
     german_ancestor |-> <<>>, inspected |-> {}, sources_count |-> 0,
     data_confidence |-> "low"]

InitLead ==
    /\ GraphStores \/ TableStores
    /\ match_candidates = <<>>
    /\ last = [branch |-> "none", record |-> NoRecord, persons |-> <<>>,
               match_candidates |-> <<>>, person_id |-> 0]
    /\ score_call = NoCall
    /\ jobs = <<>>
    /\ lead_call = NoLead
    /\ date_call = [state |-> "none"]
    /\ norm_call = [state |-> "none"]
    /\ sources = <<>>
    /\ queue = {}

\* GET /leads/{person_id}
get_lead_by_id(person_id) ==
    /\ lead_call.state = "none"
    /\ lead_call' =
          IF PersonFirst(person_id) = <<>>
          THEN [NoLead EXCEPT !.state = "returned", !.person_id = person_id,
                              !.status = 404]
          ELSE [state |-> "returned",
                person_id |-> person_id,
                status |-> IF find_german_ancestor(PersonFirst(person_id)[1]).found = <<>>
                           THEN 404 ELSE 200,
                score |-> calculate_lead_score(PersonFirst(person_id)[1]),
                german_ancestor |-> find_german_ancestor(PersonFirst(person_id)[1]).found,
                inspected |-> find_german_ancestor(PersonFirst(person_id)[1]).inspected,
                sources_count |-> Len(RawRecordsOf(person_id)),
                data_confidence |->
                    get_data_confidence(calculate_lead_score(PersonFirst(person_id)[1]),
                                        Len(RawRecordsOf(person_id)))]
    /\ UNCHANGED <<persons, raw_records, match_candidates, last, score_call,
                   addresses, jobs, date_call, relationships, norm_call,
                   sources, queue>>

NextLead == \E person_id \in 1..(MaxPersons + 1) : get_lead_by_id(person_id)

SpecLead == InitLead /\ [][NextLead]_vars

----------------------------------------------------------------------------
(* get_data_confidence applied to every total and sources count *)

InitConfidence ==
    /\ persons = <<>>
    /\ raw_records = <<>>
    /\ match_candidates = <<>>
    /\ last = [branch |-> "none", record |-> NoRecord, persons |-> <<>>,
               match_candidates |-> <<>>, person_id |-> 0]
    /\ score_call = NoCall
    /\ addresses = <<>>
    /\ jobs = <<>>
    /\ relationships = <<>>
    /\ norm_call = [state |-> "none"]
    /\ sources = <<>>
    /\ queue = {}
    /\ date_call = [state |-> "none"]
    /\ lead_call \in {[NoLead EXCEPT !.state = "scored", !.score = score,
                                     !.sources_count = sources_count] :
                         score \in 0..MaxScore, sources_count \in 0..MaxSources}

ClassifyConfidence ==
    /\ lead_call.state = "scored"
    /\ lead_call' = [lead_call EXCEPT
                        !.state = "classified",
                        !.data_confidence =
                            get_data_confidence(lead_call.score, lead_call.sources_count)]
    /\ UNCHANGED <<persons, raw_records, match_candidates, last, score_call,
                   addresses, jobs, date_call, relationships, norm_call,
                   sources, queue>>

SpecConfidence == InitConfidence /\ [][ClassifyConfidence]_vars

----------------------------------------------------------------------------
(* Properties of the lead scorer, stated on what GET /leads/{person_id}       *)
(* computed for a person of the store                                         *)

\* the call returned for a person the store holds
Scored == lead_call.state = "returned" /\ lead_call.person_id \in IdsOf(persons)

\* the persons one parent edge above a set of persons
ParentsOf(S) ==
    {relationships[n].related_person_id :
        n \in {i \in 1..Len(relationships) :
                  /\ relationships[i].relationship_type = "parent"
                  /\ relationships[i].person_id \in S}}

\* a person, its parents and the parents of its parents
WithinTwoHops(id) == {id} \cup ParentsOf({id}) \cup ParentsOf(ParentsOf({id}))

\* the persons three parent edges above a person
ThreeHops(id) == ParentsOf(ParentsOf(ParentsOf({id})))

Qualifies(id) == id \in IdsOf(persons) /\ BornInGermany(RowById(persons, id))

\* some relationship path leads from a person back to itself
HasCycle == \E id \in IdsOf(persons) : id \in ThreeHops(id) \/ id \in ParentsOf(ParentsOf({id}))

\* C16: find_german_ancestor returns on every parent-edge graph, cycles
\* included; it looks only at the person, its parents and the parents of its
\* parents; and it returns None exactly when none of those was born in the
\* qualifying country, whoever qualifies further up.
C16_BoundedAncestorSearch ==
    Scored =>
        /\ lead_call.inspected \subseteq WithinTwoHops(lead_call.person_id)
        /\ lead_call.german_ancestor = <<>>
              <=> ~ \E id \in WithinTwoHops(lead_call.person_id) : Qualifies(id)
        /\ lead_call.german_ancestor /= <<>> =>
              /\ lead_call.german_ancestor[1].id \in WithinTwoHops(lead_call.person_id)
              /\ Qualifies(lead_call.german_ancestor[1].id)

\* the search returned None on a graph with a cycle although an ancestor three
\* hops up qualifies
C16_Witness ==
    /\ Scored
    /\ HasCycle
    /\ lead_call.german_ancestor = <<>>
    /\ \E id \in ThreeHops(lead_call.person_id) :
          Qualifies(id) /\ id \notin WithinTwoHops(lead_call.person_id)

\* the points of the table's rows other than the ancestor row
OtherPoints(id) ==
    (IF Len(RawRecordsOf(id)) >= 3 THEN 20
     ELSE IF Len(RawRecordsOf(id)) = 2 THEN 10 ELSE 0)
    + (IF Len(RelationshipsTouching(id)) >= 3 THEN 15
       ELSE IF Len(RelationshipsTouching(id)) \in {1, 2} THEN 7 ELSE 0)
    + (IF Len(AddressesOf(id)) >= 1 THEN 15 ELSE 0)
    + (IF Len(AddressesOf(id)) > 1 THEN 10 ELSE 0)
    + (IF RowById(persons, id).death_date = None THEN 10 ELSE 0)
    + (IF RowById(persons, id).birth_date /= None THEN 5 ELSE 0)

\* C17: calculate_lead_score awards the 25 ancestor points exactly when
\* find_german_ancestor (self, then parents, then grandparents) returns a
\* person.
C17_AncestorPointsAgree ==
    Scored =>
        (lead_call.score - OtherPoints(lead_call.person_id) = 25
            <=> lead_call.german_ancestor /= <<>>)

\* a qualifying ancestor: the person itself or one found within two hops
HasQualifyingAncestor(id) == \E a \in WithinTwoHops(id) : Qualifies(a)

\* the person of Scenario D: born in Germany, one source, no relationship, no
\* address, no death date, a birth date
ScenarioD(id) ==
    /\ RowById(persons, id).birth_country = Germany
    /\ Len(RawRecordsOf(id)) = 1
    /\ RelationshipsTouching(id) = <<>>
    /\ AddressesOf(id) = <<>>
    /\ RowById(persons, id).death_date = None
    /\ RowById(persons, id).birth_date /= None

\* C18: the lead score is the sum of the table's points for the person's
\* qualifying ancestor, raw records, relationship edges, addresses and dates,
\* capped at 100; it lies in 0..100; and the person of Scenario D scores 40.
C18_LeadScoreTable ==
    Scored =>
        /\ lead_call.score =
               Min((IF HasQualifyingAncestor(lead_call.person_id) THEN 25 ELSE 0)
                   + OtherPoints(lead_call.person_id), 100)
        /\ lead_call.score \in 0..100
        /\ ScenarioD(lead_call.person_id) => lead_call.score = 40

----------------------------------------------------------------------------
(* Properties of get_data_confidence *)

\* C19: get_data_confidence returns "high" exactly for a total of at least 80
\* with at least 3 sources, otherwise "medium" exactly for a total of at least 60
\* with at least 2 sources, and otherwise "low".
C19_ConfidenceClassification ==
    lead_call.state = "classified" =>
        /\ lead_call.data_confidence = "high"
              <=> lead_call.score >= 80 /\ lead_call.sources_count >= 3
        /\ lead_call.data_confidence = "medium"
              <=> /\ ~(lead_call.score >= 80 /\ lead_call.sources_count >= 3)
                  /\ lead_call.score >= 60 /\ lead_call.sources_count >= 2
        /\ lead_call.data_confidence = "low"
              <=> /\ ~(lead_call.score >= 80 /\ lead_call.sources_count >= 3)
                  /\ ~(lead_call.score >= 60 /\ lead_call.sources_count >= 2)

\* a total of exactly 80 from exactly 3 sources was classified high
C19_Witness ==
    /\ lead_call.state = "classified"
    /\ lead_call.score = 80
    /\ lead_call.sources_count = 3
    /\ lead_call.data_confidence = "high"

----------------------------------------------------------------------------
(* calculate_date_proximity applied to a date and the date k days later, and  *)
(* to the day after that, under a window of max_years                         *)

MaxYears == 2

MaxBeyond == 3

InitDate ==
    /\ persons = <<>>
    /\ raw_records = <<>>
    /\ match_candidates = <<>>
    /\ last = [branch |-> "none", record |-> NoRecord, persons |-> <<>>,
               match_candidates |-> <<>>, person_id |-> 0]
    /\ score_call = NoCall
    /\ addresses = <<>>
    /\ jobs = <<>>
    /\ relationships = <<>>
    /\ norm_call = [state |-> "none"]
    /\ sources = <<>>
    /\ queue = {}
    /\ lead_call = [state |-> "none"]
    /\ date_call \in {[state |-> "called", date1 |-> date1, k |-> k,
                       max_years |-> max_years, value |-> <<>>, next_value |-> <<>>] :
                         date1 \in {<<0>>, <<200>>},
                         k \in 0..(MaxYears * 365 + MaxBeyond),
                         max_years \in 0..MaxYears}

DateProximity ==
    /\ date_call.state = "called"
    /\ date_call' =
          [date_call EXCEPT
              !.state = "returned",
              !.value = calculate_date_proximity(
                            date_call.date1, <<date_call.date1[1] + date_call.k>>,
                            date_call.max_years),
              !.next_value = calculate_date_proximity(
                                 date_call.date1, <<date_call.date1[1] + date_call.k + 1>>,
                                 date_call.max_years)]
    /\ UNCHANGED <<persons, raw_records, match_candidates, last, score_call,
                   addresses, jobs, lead_call, relationships, norm_call,
                   sources, queue>>

SpecDate == InitDate /\ [][DateProximity]_vars

----------------------------------------------------------------------------
(* Properties of calculate_date_proximity *)

\* the days of the window of a call
WindowDays == date_call.max_years * 365

\* neither call raised
Returned ==
    /\ date_call.state = "returned"
    /\ date_call.value /= ZeroDivisionError
    /\ date_call.next_value /= ZeroDivisionError

\* C20 as stated: for a window of W years, the proximity of d and d + k days is
\* 1 at k = 0, is 1 - k/(W*365) and non-increasing in k for 0 <= k <= W*365, and
\* is exactly 0 for every k >= W*365; the function fails for no W >= 0.
C20_DateProximityDecay ==
    date_call.state = "returned" =>
        /\ Returned
        /\ date_call.k = 0 => date_call.value = Rat(1, 1)
        /\ date_call.k <= WindowDays /\ WindowDays > 0 =>
               date_call.value = Rat(WindowDays - date_call.k, WindowDays)
        /\ date_call.k < WindowDays => RatGE(date_call.value, date_call.next_value)
        /\ date_call.k >= WindowDays => date_call.value = Rat(0, 1)

\* C20, amended: as stated, except that the proximity is exactly 0 for every
\* k >= W*365 with k >= 1; identical dates (k = 0) score 1 under every window,
\* the window of 0 years included.
C20_DateProximityDecayFromOneDay ==
    date_call.state = "returned" =>
        /\ Returned
        /\ date_call.k = 0 => date_call.value = Rat(1, 1)
        /\ date_call.k <= WindowDays /\ WindowDays > 0 =>
               date_call.value = Rat(WindowDays - date_call.k, WindowDays)
        /\ date_call.k < WindowDays => RatGE(date_call.value, date_call.next_value)
        /\ date_call.k >= WindowDays /\ date_call.k >= 1 =>
               date_call.value = Rat(0, 1)

\* under a window of 0 years, dates one day apart returned 0
C20_Witness ==
    /\ Returned
    /\ date_call.max_years = 0
    /\ date_call.k = 1
    /\ date_call.value = Rat(0, 1)

----------------------------------------------------------------------------
(* Properties of process_record under the orders of the store *)

\* the person the step chose scores at least as high as every person it read
ChosenIsBest ==
    \E i \in 1..Len(last.persons) :
        /\ last.persons[i].id = last.person_id
        /\ \A j \in 1..Len(last.persons) : RatGE(ScoreOf(i), ScoreOf(j))

\* C21: the person process_record merges a record into has the highest score
\* among the persons at or above the match threshold, and is the same person
\* whatever the order in which the store returns the persons.
C21_DeterministicChoice ==
    Stepped /\ Merged =>
        /\ ChosenIsBest
        /\ \A order \in Orders(Len(last.persons)) :
               process_record(last.record, Reordered(last.persons, order),
                              last.match_candidates).person_id = last.person_id

----------------------------------------------------------------------------
(* The Normalizer, called on its own                                          *)
(* src/app/services/normalizer.py                                             *)

\* in a family of payloads: the key is left out of the payload
Missing == <<-3>>

\* the payload of the fields that are not Missing
Payload(fields) == [key \in {k \in DOMAIN fields : fields[k] /= Missing} |-> fields[key]]

\* a string dateutil cannot parse
Unparsable == <<-4>>

\* dict.get(key, default)
Get(record, key, default) == IF key \in DOMAIN record THEN record[key] ELSE default

\* a or b
Or(a, b) == IF Truthy(a) THEN a ELSE b

\* the call ends in an exception
Raised(exception) == [raised |-> exception]

HasRaised(result) == "raised" \in DOMAIN result

\* re.sub(r'\s+', ' ', name)
RECURSIVE CollapseSpaces(_)
CollapseSpaces(s) ==
    IF Len(s) < 2 THEN s
    ELSE IF s[1] = 0 /\ s[2] = 0 THEN CollapseSpaces(Tail(s))
    ELSE <<s[1]>> \o CollapseSpaces(Tail(s))

\* s.split(',', 1), for s holding a comma
SplitFirstComma(s) ==
    LET i == CHOOSE k \in 1..Len(s) : s[k] = comma /\ \A h \in 1..(k - 1) : s[h] /= comma
    IN  <<SubSeq(s, 1, i - 1), SubSeq(s, i + 1, Len(s))>>

\* lines 41-46: first name and middle name out of the tokens before the last name
NameParts(first_middle, last_name) ==
    Name(IF first_middle /= <<>> THEN first_middle[1] ELSE <<>>,
         IF Len(first_middle) > 1 THEN Join(Tail(first_middle)) ELSE <<>>,
         last_name)

\* as ParseName, without the "Last, First" branch
ParseNameNoComma(name) ==
    IF Len(Split(name)) = 0 THEN Name(<<>>, <<>>, <<>>)
    ELSE IF Len(Split(name)) = 1 THEN Name(Split(name)[1], <<>>, <<>>)
    ELSE NameParts(SubSeq(Split(name), 1, Len(Split(name)) - 1),
                   Split(name)[Len(Split(name))])

\* lines 25-46, on the cleaned name
ParseName(name) ==
    IF Contains(name, <<comma>>)
    THEN NameParts(Split(Strip(SplitFirstComma(name)[2])), Strip(SplitFirstComma(name)[1]))
    ELSE IF Len(Split(name)) = 0 THEN Name(<<>>, <<>>, <<>>)
    ELSE IF Len(Split(name)) = 1 THEN Name(Split(name)[1], <<>>, <<>>)
    ELSE NameParts(SubSeq(Split(name), 1, Len(Split(name)) - 1),
                   Split(name)[Len(Split(name))])

\* Normalizer.normalize_name: a number has no strip()
normalize_name(name) ==
    IF ~Truthy(name) THEN Name(<<>>, <<>>, <<>>)
    ELSE IF ~IsText(name) THEN Raised("AttributeError")
    ELSE ParseName(CollapseSpaces(Strip(name)))

\* Normalizer.normalize_date: a date is written <<day>>; whatever is neither a
\* datetime nor a string dateutil parses comes back as None
normalize_date(date_str) ==
    IF ~Truthy(date_str) THEN None
    ELSE IF date_str = JsonNumber \/ date_str = Unparsable THEN None
    ELSE date_str

StripAll(parts) == [i \in 1..Len(parts) |-> Strip(parts[i])]

\* Normalizer.normalize_location: a number has no split()
normalize_location(location) ==
    IF ~Truthy(location) THEN [city |-> None, state |-> None, country |-> None]
    ELSE IF ~IsText(location) THEN Raised("AttributeError")
    ELSE IF Len(SplitComma(location)) = 1
         THEN [city |-> StripAll(SplitComma(location))[1], state |-> None, country |-> None]
    ELSE IF Len(SplitComma(location)) = 2
         THEN [city |-> StripAll(SplitComma(location))[1],
               state |-> StripAll(SplitComma(location))[2], country |-> None]
    ELSE [city |-> StripAll(SplitComma(location))[1],
          state |-> StripAll(SplitComma(location))[2],
          country |-> StripAll(SplitComma(location))[Len(SplitComma(location))]]

German == <<39, 5, 18, 13, 1, 14>>
Austria == <<33, 21, 19, 20, 18, 9, 1>>
USA == <<53, 51, 33>>
UnitedStates == <<53, 14, 9, 20, 5, 4, 0, 51, 20, 1, 20, 5, 19>>

\* Normalizer.extract_country: the country found, or the exception of
\* '"Germany" in location' on a number
extract_country(location) ==
    IF ~Truthy(location) THEN [country |-> None]
    ELSE IF ~IsText(location) THEN Raised("TypeError")
    ELSE IF Contains(location, Germany) \/ Contains(location, German)
         THEN [country |-> Germany]
    ELSE IF Contains(location, Austria) THEN [country |-> Austria]
    ELSE IF Contains(location, USA) \/ Contains(location, UnitedStates)
         THEN [country |-> UnitedStates]
    ELSE [country |-> StripAll(SplitComma(location))[Len(SplitComma(location))]]

\* Normalizer.normalize_naturalization_record
normalize_naturalization_record(record) ==
    IF HasRaised(normalize_name(Get(record, "petitioner_name", <<>>)))
    THEN normalize_name(Get(record, "petitioner_name", <<>>))
    ELSE IF HasRaised(normalize_location(Get(record, "birth_place", <<>>)))
    THEN normalize_location(Get(record, "birth_place", <<>>))
    ELSE [first_name |-> normalize_name(Get(record, "petitioner_name", <<>>)).first_name,
          middle_name |-> normalize_name(Get(record, "petitioner_name", <<>>)).middle_name,
          last_name |-> normalize_name(Get(record, "petitioner_name", <<>>)).last_name,
          birth_date |-> normalize_date(Get(record, "birth_date", None)),
          birth_place |-> Get(record, "birth_place", None),
          birth_city |-> normalize_location(Get(record, "birth_place", <<>>)).city,
          birth_state |-> normalize_location(Get(record, "birth_place", <<>>)).state,
          birth_country |-> Or(normalize_location(Get(record, "birth_place", <<>>)).country,
                               Get(record, "former_nationality", None)),
          sex |-> None,
          naturalization_date |-> normalize_date(Get(record, "naturalization_date", None)),
          residence |-> Get(record, "residence_at_naturalization", None),
          source_data |-> record]

\* Normalizer.normalize_immigration_record
normalize_immigration_record(record) ==
    IF HasRaised(normalize_name(Get(record, "passenger_name", <<>>)))
    THEN normalize_name(Get(record, "passenger_name", <<>>))
    ELSE IF HasRaised(normalize_location(Get(record, "birthplace", <<>>)))
    THEN normalize_location(Get(record, "birthplace", <<>>))
    ELSE IF HasRaised(extract_country(Get(record, "last_residence", <<>>)))
    THEN extract_country(Get(record, "last_residence", <<>>))
    ELSE [first_name |-> normalize_name(Get(record, "passenger_name", <<>>)).first_name,
          middle_name |-> normalize_name(Get(record, "passenger_name", <<>>)).middle_name,
          last_name |-> normalize_name(Get(record, "passenger_name", <<>>)).last_name,
          birth_date |-> normalize_date(Get(record, "birth_date", None)),
          birth_place |-> Get(record, "birthplace", None),
          birth_city |-> normalize_location(Get(record, "birthplace", <<>>)).city,
          birth_state |-> normalize_location(Get(record, "birthplace", <<>>)).state,
          birth_country |-> extract_country(Get(record, "last_residence", <<>>)).country,
          sex |-> Get(record, "sex", None),
          arrival_date |-> normalize_date(Get(record, "arrival_date", None)),
          source_data |-> record]

\* lines 149-155: January 1 of birth_year, written as the day it falls on; a
\* birth_year int() does not take leaves the date None
BirthYearDate(birth_year) ==
    IF ~Truthy(birth_year) \/ birth_year = Unparsable THEN None ELSE birth_year

\* Normalizer.normalize_census_household_member
normalize_census_household_member(member, address) ==
    IF HasRaised(normalize_name(Get(member, "name", <<>>)))
    THEN normalize_name(Get(member, "name", <<>>))
    ELSE IF HasRaised(extract_country(Get(member, "birthplace", <<>>)))
    THEN extract_country(Get(member, "birthplace", <<>>))
    ELSE [first_name |-> normalize_name(Get(member, "name", <<>>)).first_name,
          middle_name |-> normalize_name(Get(member, "name", <<>>)).middle_name,
          last_name |-> normalize_name(Get(member, "name", <<>>)).last_name,
          birth_date |-> BirthYearDate(Get(member, "birth_year", None)),
          birth_place |-> Get(member, "birthplace", None),
          birth_country |-> extract_country(Get(member, "birthplace", <<>>)).country,
          sex |-> Get(member, "sex", None),
          residence |-> address,
          source_data |-> member]

\* Normalizer.normalize_obituary_record
normalize_obituary_record(record) ==
    IF HasRaised(normalize_name(Get(record, "deceased_name", <<>>)))
    THEN normalize_name(Get(record, "deceased_name", <<>>))
    ELSE IF HasRaised(normalize_location(Get(record, "birth_place", <<>>)))
    THEN normalize_location(Get(record, "birth_place", <<>>))
    ELSE [first_name |-> normalize_name(Get(record, "deceased_name", <<>>)).first_name,
          middle_name |-> normalize_name(Get(record, "deceased_name", <<>>)).middle_name,
          last_name |-> normalize_name(Get(record, "deceased_name", <<>>)).last_name,
          birth_date |-> normalize_date(Get(record, "birth_date", None)),
          birth_place |-> Get(record, "birth_place", None),
          birth_city |-> normalize_location(Get(record, "birth_place", <<>>)).city,
          birth_state |-> normalize_location(Get(record, "birth_place", <<>>)).state,
          birth_country |-> normalize_location(Get(record, "birth_place", <<>>)).country,
          death_date |-> normalize_date(Get(record, "death_date", None)),
          death_place |-> Get(record, "death_place", None),
          last_residence |-> Get(record, "last_residence", None),
          sex |-> None,
          source_data |-> record]

\* Normalizer.normalize_birth_record
normalize_birth_record(record) ==
    IF HasRaised(normalize_name(Get(record, "child_name", <<>>)))
    THEN normalize_name(Get(record, "child_name", <<>>))
    ELSE [first_name |-> normalize_name(Get(record, "child_name", <<>>)).first_name,
          middle_name |-> normalize_name(Get(record, "child_name", <<>>)).middle_name,
          last_name |-> normalize_name(Get(record, "child_name", <<>>)).last_name,
          birth_date |-> normalize_date(Get(record, "birth_date", None)),
          birth_place |-> Get(record, "birth_place", None),
          sex |-> Get(record, "sex", None),
          source_data |-> record]

\* the longest name string normalize_name is tried on letter by letter
MaxNameLen == 4

\* "Schmidt, Hans Friedrich"
SchmidtHansFriedrich ==
    <<51, 3, 8, 13, 9, 4, 20, comma, 0, 40, 1, 14, 19, 0,
      38, 18, 9, 5, 4, 18, 9, 3, 8>>

\* "Berlin, Prussia, Germany"
BerlinPrussiaGermany ==
    Berlin \o <<comma, 0, 48, 18, 21, 19, 19, 9, 1, comma, 0>> \o Germany

\* every string of a, b, space and comma up to a length
NameStrings(max) == UNION {[1..k -> {1, 2, 0, comma}] : k \in 0..max}

\* what a JSON payload may hold where a name, a place or a date is expected
NameValues == {Missing, None, <<>>, JsonNumber, hans \o <<0>> \o schmidt}

PlaceValues == {Missing, None, JsonNumber, Berlin, BerlinPrussiaGermany}

DateValues == {Missing, <<0>>, Unparsable, JsonNumber}

NaturalizationPayloads ==
    [petitioner_name : NameValues, birth_place : PlaceValues, birth_date : DateValues,
     former_nationality : {Missing, Germany}, naturalization_date : {Missing},
     residence_at_naturalization : {Missing, residence_text}]

ImmigrationPayloads ==
    [passenger_name : NameValues, birthplace : PlaceValues, birth_date : {Missing, <<0>>},
     last_residence : PlaceValues, sex : {Missing}, arrival_date : {Missing}]

CensusMembers ==
    [name : NameValues, birth_year : {Missing, <<0>>, Unparsable},
     birthplace : PlaceValues, sex : {Missing}]

ObituaryPayloads ==
    [deceased_name : NameValues, birth_place : PlaceValues, birth_date : {Missing, <<0>>},
     death_date : DateValues, death_place : {Missing},
     last_residence : {Missing, residence_text}]

BirthPayloads ==
    [child_name : NameValues, birth_date : DateValues, birth_place : PlaceValues,
     sex : {Missing}]

NormCall(function, argument, address) ==
    [state |-> "called", function |-> function, argument |-> argument,
     address |-> address, result |-> <<>>]

InitNormalize ==
    /\ persons = <<>>
    /\ raw_records = <<>>
    /\ match_candidates = <<>>
    /\ last = [branch |-> "none", record |-> NoRecord, persons |-> <<>>,
               match_candidates |-> <<>>, person_id |-> 0]
    /\ score_call = NoCall
    /\ addresses = <<>>
    /\ jobs = <<>>
    /\ relationships = <<>>
    /\ lead_call = [state |-> "none"]
    /\ date_call = [state |-> "none"]
    /\ sources = <<>>
    /\ queue = {}
    /\ \/ \E name \in NameStrings(MaxNameLen) \cup {SchmidtHansFriedrich} :
              norm_call = NormCall("normalize_name", name, <<>>)
       \/ \E record \in NaturalizationPayloads :
              norm_call = NormCall("naturalization", Payload(record), <<>>)
       \/ \E record \in ImmigrationPayloads :
              norm_call = NormCall("immigration", Payload(record), <<>>)
       \/ \E member \in CensusMembers, address \in {<<>>, residence_text} :
              norm_call = NormCall("census", Payload(member), address)
       \/ \E record \in ObituaryPayloads :
              norm_call = NormCall("obituary", Payload(record), <<>>)
       \/ \E record \in BirthPayloads :
              norm_call = NormCall("birth", Payload(record), <<>>)

NormalizeName ==
    /\ norm_call.state = "called"
    /\ norm_call.function = "normalize_name"
    /\ norm_call' = [norm_call EXCEPT !.state = "returned",
                                      !.result = normalize_name(norm_call.argument)]
    /\ UNCHANGED <<persons, raw_records, match_candidates, last, score_call,
                   addresses, jobs, lead_call, date_call, relationships,
                   sources, queue>>

\* the normalize_* function the task calls for a source type
NormalizeSource(source_type, record_data, address) ==
    IF source_type = "naturalization" THEN normalize_naturalization_record(record_data)
    ELSE IF source_type = "immigration" THEN normalize_immigration_record(record_data)
    ELSE IF source_type = "census"
         THEN normalize_census_household_member(record_data, address)
    ELSE IF source_type = "obituary" THEN normalize_obituary_record(record_data)
    ELSE normalize_birth_record(record_data)

NormalizeRecord ==
    /\ norm_call.state = "called"
    /\ norm_call.function /= "normalize_name"
    /\ norm_call' = [norm_call EXCEPT
                        !.state = "returned",
                        !.result = NormalizeSource(norm_call.function, norm_call.argument,
                                                   norm_call.address)]
    /\ UNCHANGED <<persons, raw_records, match_candidates, last, score_call,
                   addresses, jobs, lead_call, date_call, relationships,
                   sources, queue>>

NextNormalize == NormalizeName \/ NormalizeRecord

SpecNormalize == InitNormalize /\ [][NextNormalize]_vars

----------------------------------------------------------------------------
(* Properties of SpecNormalize                                                *)

RecordReturned == norm_call.state = "returned" /\ norm_call.function /= "normalize_name"

\* the payload's birth date is there and is no date
BirthDateUnparsable ==
    IF norm_call.function = "census"
    THEN Get(norm_call.argument, "birth_year", None) = Unparsable
    ELSE Get(norm_call.argument, "birth_date", None) \in {Unparsable, JsonNumber}

\* C22: for every source type and every payload, with fields missing, null or
\* not a string, the normalize_* function returns a normalized record and raises
\* nothing, and a birth date that cannot be parsed is None in the record
C22_NormalizerTotality ==
    RecordReturned =>
        /\ ~HasRaised(norm_call.result)
        /\ BirthDateUnparsable => norm_call.result.birth_date = None

NameReturned == norm_call.state = "returned" /\ norm_call.function = "normalize_name"

\* the whitespace-delimited tokens of a string
Tokens(s) == Split(s)

HasComma(s) == \E i \in 1..Len(s) : s[i] = comma

\* the text before the first comma of s, cleaned of surrounding and repeated space
BeforeComma(s) ==
    LET i == CHOOSE k \in 1..Len(s) : s[k] = comma /\ ~HasComma(SubSeq(s, 1, k - 1))
    IN  Join(Tokens(SubSeq(s, 1, i - 1)))

\* the tokens after the first comma of s
AfterComma(s) ==
    LET i == CHOOSE k \in 1..Len(s) : s[k] = comma /\ ~HasComma(SubSeq(s, 1, k - 1))
    IN  Tokens(SubSeq(s, i + 1, Len(s)))

FirstOf(tokens) == IF tokens = <<>> THEN <<>> ELSE tokens[1]

RestOf(tokens) == IF Len(tokens) < 2 THEN <<>> ELSE Join(Tail(tokens))

----------------------------------------------------------------------------
(* Re-ingestion, under Spec                                                   *)

\* the record just processed is identical to one processed before it
Reingested ==
    /\ Stepped
    /\ \E i \in 1..(Len(raw_records) - 1) : raw_records[i].normalized_data = last.record

\* C27: processing a record whose normalized data is identical to a record
\* already processed into a person never creates a second person: it merges
\* into an existing one
C27_ReingestionMerges ==
    Reingested => Merged /\ Len(persons) = Len(last.persons)

----------------------------------------------------------------------------
(* POST /ingest and process_records_task over the sources of the request      *)
(* src/app/api/endpoints/ingest.py, src/app/tasks/celery_tasks.py             *)

\* "Male"
Male == <<45, 1, 12, 5>>

\* datetime.utcnow(): a time
utcnow == <<0>>

\* a naturalization payload of Hans Schmidt
NaturalizationPayload(residence) ==
    Payload([petitioner_name |-> hans \o <<0>> \o schmidt, birth_place |-> Berlin,
             birth_date |-> <<0>>, former_nationality |-> Germany,
             residence_at_naturalization |-> residence])

\* a household member of a census payload
CensusMember(first_name, last_name) ==
    [name |-> first_name \o <<0>> \o last_name, birth_year |-> <<0>>,
     birthplace |-> Berlin]

\* a census payload
CensusPayload(household_members) ==
    [address |-> residence_text, household_members |-> household_members]

\* a census payload without the household_members list
CensusWithoutMembers == [address |-> residence_text]

\* a birth payload whose birth_place is a number
BirthPayload ==
    [child_name |-> hans \o <<0>> \o schmidt, birth_date |-> <<0>>,
     birth_place |-> JsonNumber]

\* an immigration payload whose sex is written out
ImmigrationPayload ==
    [passenger_name |-> hanz \o <<0>> \o ott, sex |-> Male]

\* the IngestRequests of the model
Requests ==
    {[source_type |-> "naturalization", records |-> <<NaturalizationPayload(Missing)>>],
     [source_type |-> "naturalization",
      records |-> <<NaturalizationPayload(Missing), NaturalizationPayload(residence_text)>>],
     [source_type |-> "census",
      records |-> <<CensusWithoutMembers, CensusPayload(<<CensusMember(hans, schmidt)>>)>>],
     [source_type |-> "census",
      records |-> <<CensusPayload(<<CensusMember(hans, schmidt), CensusMember(hans, ott)>>)>>],
     [source_type |-> "birth", records |-> <<BirthPayload>>],
     [source_type |-> "immigration", records |-> <<ImmigrationPayload>>],
     [source_type |-> "marriage", records |-> <<NaturalizationPayload(Missing)>>]}

\* the ProcessingJob of lines 33-38 of ingest.py as committed, with the locals
\* of its task and the response of the request that made it
IngestJob(request, source_ids, response) ==
    [status |-> "pending",
     total_records |-> Len(request.records),
     records_processed |-> 0,
     result_data |-> [source_ids |-> source_ids],
     error_message |-> None,
     started_at |-> None,
     completed_at |-> None,
     response |-> response,
     pc |-> "queued",
     source_ids |-> source_ids,
     source_type |-> request.source_type,
     s |-> 1,
     persons_data |-> <<>>,
     k |-> 1,
     persons_created |-> 0,
     persons_merged |-> 0,
     addresses_created |-> 0,
     exception |-> None,
     session |-> "active",
     pending |-> NoPending,
     decisions |-> <<>>]

InitIngest ==
    /\ persons = <<>>
    /\ raw_records = <<>>
    /\ match_candidates = <<>>
    /\ addresses = <<>>
    /\ last = [branch |-> "none", record |-> NoRecord, persons |-> <<>>,
               match_candidates |-> <<>>, person_id |-> 0]
    /\ score_call = NoCall
    /\ lead_call = [state |-> "none"]
    /\ date_call = [state |-> "none"]
    /\ relationships = <<>>
    /\ norm_call = [state |-> "none"]
    /\ jobs = <<>>
    /\ sources = <<>>
    /\ queue = {}

\* the payload holds a number where the Matcher lowers a birth place
NumericBirthPlace(request) ==
    \E i \in 1..Len(request.records) :
        /\ "birth_place" \in DOMAIN request.records[i]
        /\ request.records[i].birth_place = JsonNumber

\* POST /ingest: the Sources and the ProcessingJob are committed (line 40) and
\* then the task is queued (line 44); when the broker refuses the message,
\* delay() raises, the handler rolls back a session that holds nothing and
\* answers 500.  A payload with a numeric birth place is submitted once a
\* person with a birth place is stored.
ingest_records(request, broker_up) ==
    /\ Len(jobs) < Cardinality(JobIds)
    /\ NumericBirthPlace(request) =>
           \E i \in 1..Len(persons) : persons[i].birth_place /= None
    /\ sources' = sources \o
           [i \in 1..Len(request.records) |->
               [id |-> Len(sources) + i, source_type |-> request.source_type,
                record_data |-> request.records[i]]]
    /\ jobs' = Append(jobs,
           IngestJob(request,
                     [i \in 1..Len(request.records) |-> Len(sources) + i],
                     IF broker_up THEN "pending" ELSE "500"))
    /\ queue' = IF broker_up
                THEN queue \cup {[job_id |-> Len(jobs) + 1,
                                  source_ids |-> [i \in 1..Len(request.records) |->
                                                     Len(sources) + i],
                                  source_type |-> request.source_type]}
                ELSE queue
    /\ UNCHANGED <<persons, raw_records, match_candidates, addresses, last,
                   score_call, lead_call, date_call, relationships, norm_call>>

\* lines 39-45 of celery_tasks.py: a worker takes the task off the queue, marks
\* the job running and commits
StartTask(j) ==
    /\ j \in DOMAIN jobs
    /\ jobs[j].pc = "queued"
    /\ \E task \in queue :
           /\ task.job_id = j
           /\ queue' = queue \ {task}
    /\ jobs' = [jobs EXCEPT ![j] =
                   [@ EXCEPT !.status = "running", !.started_at = utcnow,
                             !.pc = "source"]]
    /\ UNCHANGED <<persons, raw_records, match_candidates, addresses, last,
                   score_call, lead_call, date_call, relationships, norm_call,
                   sources>>

\* the keys the task and the Deduplicator read of a normalized record with
\* get(): None for a key the record does not hold
PersonData(normalized) ==
    [key \in {"first_name", "middle_name", "last_name", "birth_date", "birth_place",
              "birth_city", "birth_state", "birth_country", "death_date",
              "death_place", "sex", "residence", "last_residence"} |->
        IF key \in DOMAIN normalized THEN normalized[key] ELSE None]

\* lines 76-78: every household member normalized, or the first exception
NormalizedMembers(members, address) ==
    LET normalized == [i \in 1..Len(members) |->
                          normalize_census_household_member(members[i], address)]
    IN  IF \E i \in 1..Len(members) : HasRaised(normalized[i])
        THEN normalized[CHOOSE i \in 1..Len(members) :
                            /\ HasRaised(normalized[i])
                            /\ \A h \in 1..(i - 1) : ~HasRaised(normalized[h])]
        ELSE [persons_data |-> normalized]

\* a census branch that reads household_members without a default
CensusPersonsStrict(record_data) ==
    IF "household_members" \notin DOMAIN record_data THEN Raised("KeyError")
    ELSE NormalizedMembers(record_data.household_members,
                           Get(record_data, "address", <<>>))

\* lines 74-78: household_members defaults to the empty list
CensusPersons(record_data) ==
    NormalizedMembers(Get(record_data, "household_members", <<>>),
                      Get(record_data, "address", <<>>))

\* lines 58-95: persons_data of a source, or the exception of its normalizer; a
\* source type the task does not know gives nothing
PersonsOfSource(source_type, record_data) ==
    IF source_type = "census" THEN CensusPersons(record_data)
    ELSE IF source_type \notin {"naturalization", "immigration", "obituary", "birth"}
    THEN [persons_data |-> <<>>]
    ELSE IF HasRaised(NormalizeSource(source_type, record_data, <<>>))
    THEN NormalizeSource(source_type, record_data, <<>>)
    ELSE [persons_data |-> <<NormalizeSource(source_type, record_data, <<>>)>>]

\* lines 53-95 for the next source of job j
NextSource(j) ==
    /\ j \in DOMAIN jobs
    /\ jobs[j].pc = "source"
    /\ jobs[j].s <= Len(jobs[j].source_ids)
    /\ LET out == PersonsOfSource(
                      jobs[j].source_type,
                      RowById(sources, jobs[j].source_ids[jobs[j].s]).record_data)
       IN  jobs' = [jobs EXCEPT ![j] =
                IF HasRaised(out)
                THEN [@ EXCEPT !.pc = "except", !.exception = out.raised]
                ELSE IF out.persons_data = <<>>
                THEN [@ EXCEPT !.persons_data = <<>>, !.k = 1, !.s = @ + 1]
                ELSE [@ EXCEPT
                         !.persons_data = [i \in 1..Len(out.persons_data) |->
                                              PersonData(out.persons_data[i])],
                         !.k = 1, !.pc = "resolve"]]
    /\ UNCHANGED <<persons, raw_records, match_candidates, addresses, last,
                   score_call, lead_call, date_call, relationships, norm_call,
                   sources, queue>>

\* matcher.py line 95: loc1.lower() on a birth place that is a number, reached
\* for the first person whose birth place is not None
MatcherRaises(person_data, existing_persons) ==
    /\ person_data.birth_place = JsonNumber
    /\ \E i \in 1..Len(existing_persons) : existing_persons[i].birth_place /= None

\* persons.sex is String(1): the INSERT of a longer value is refused
FlushRaises(person_data, res) ==
    /\ res.branch \in {"create", "low_confidence"}
    /\ Truthy(person_data.sex)
    /\ Len(person_data.sex) > 1

\* the rows a session holds pending, under the id of the source read
OfSource(job, source_id) ==
    [job EXCEPT
        !.pending.raw = [i \in 1..Len(@) |-> [@[i] EXCEPT !.source_id = source_id]],
        !.pending.addresses =
            [i \in 1..Len(@) |-> [@[i] EXCEPT !.source_id = source_id]]]

\* lines 98-130 for the next person of the source.  The raw record is flushed
\* unprocessed (matched_person_id 0 for NULL); an exception of the Matcher
\* leaves it so in the session; a flush the database refuses rolls the
\* session's transaction back
ResolvePerson(j) ==
    /\ j \in DOMAIN jobs
    /\ jobs[j].pc = "resolve"
    /\ LET person_data == jobs[j].persons_data[jobs[j].k]
           source_id == jobs[j].source_ids[jobs[j].s]
       IN  jobs' = [jobs EXCEPT ![j] =
                IF MatcherRaises(person_data, persons)
                THEN [@ EXCEPT
                         !.pc = "except", !.exception = "AttributeError",
                         !.pending =
                             [NoPending EXCEPT
                                 !.raw = <<[id |-> NextRawId, source_id |-> source_id,
                                            normalized_data |-> person_data,
                                            processed |-> FALSE,
                                            matched_person_id |-> 0]>>,
                                 !.read = persons]]
                ELSE IF FlushRaises(person_data, process_record(person_data, persons, <<>>))
                THEN [@ EXCEPT !.pc = "except", !.exception = "DataError",
                               !.session = "rolled_back", !.pending = NoPending]
                ELSE OfSource(ResolvedBy(j, person_data,
                                         process_record(person_data, persons, <<>>)),
                              source_id)]
    /\ UNCHANGED <<persons, raw_records, match_candidates, addresses, last,
                   score_call, lead_call, date_call, relationships, norm_call,
                   sources, queue>>

\* lines 132-133: the person is counted and the session committed; after the
\* last person of the source the loop goes to the next source
CommitPerson(j) ==
    /\ j \in DOMAIN jobs
    /\ jobs[j].pc = "commit"
    /\ persons' = CommitPersons(persons, jobs[j].pending.persons)
    /\ raw_records' = CommitRaw(raw_records, jobs[j].pending.raw)
    /\ match_candidates' = match_candidates \o jobs[j].pending.match_candidates
    /\ addresses' = addresses \o jobs[j].pending.addresses
    /\ jobs' = [jobs EXCEPT ![j] =
                   [@ EXCEPT !.records_processed = @ + 1,
                             !.pending = NoPending,
                             !.k = IF jobs[j].k < Len(jobs[j].persons_data)
                                   THEN @ + 1 ELSE 1,
                             !.s = IF jobs[j].k < Len(jobs[j].persons_data)
                                   THEN @ ELSE @ + 1,
                             !.pc = IF jobs[j].k < Len(jobs[j].persons_data)
                                    THEN "resolve" ELSE "source"]]
    /\ UNCHANGED <<last, score_call, lead_call, date_call, relationships, norm_call,
                   sources, queue>>

\* lines 135-150: the sources are done, the job is marked completed
CompleteTask(j) ==
    /\ j \in DOMAIN jobs
    /\ jobs[j].pc = "source"
    /\ jobs[j].s > Len(jobs[j].source_ids)
    /\ jobs' = [jobs EXCEPT ![j] =
                   [@ EXCEPT !.status = "completed",
                             !.completed_at = utcnow,
                             !.result_data =
                                 [persons_created |-> jobs[j].persons_created,
                                  persons_merged |-> jobs[j].persons_merged,
                                  addresses_created |-> jobs[j].addresses_created,
                                  relationships_created |-> 0],
                             !.pc = "done"]]
    /\ UNCHANGED <<persons, raw_records, match_candidates, addresses, last,
                   score_call, lead_call, date_call, relationships, norm_call,
                   sources, queue>>

\* a handler that leaves completed_at as it is
MarkFailedWithoutTime(job) ==
    [job EXCEPT !.status = "failed", !.error_message = job.exception,
                !.pc = "done", !.pending = NoPending]

\* lines 153-155
MarkFailed(job) ==
    [job EXCEPT !.status = "failed", !.error_message = job.exception,
                !.completed_at = utcnow, !.pc = "done", !.pending = NoPending]

\* lines 152-157: the handler marks the job failed and commits the session with
\* what the failed person left pending in it.  In a session whose transaction a
\* failed flush rolled back the commit raises PendingRollbackError: nothing is
\* written and the task ends with the job as last committed
FailTask(j) ==
    /\ j \in DOMAIN jobs
    /\ jobs[j].pc = "except"
    /\ IF jobs[j].session = "rolled_back"
       THEN /\ jobs' = [jobs EXCEPT ![j] =
                           [@ EXCEPT !.pc = "raised",
                                     !.exception = "PendingRollbackError"]]
            /\ UNCHANGED <<persons, raw_records, match_candidates, addresses>>
       ELSE /\ persons' = CommitPersons(persons, jobs[j].pending.persons)
            /\ raw_records' = CommitRaw(raw_records, jobs[j].pending.raw)
            /\ match_candidates' = match_candidates \o jobs[j].pending.match_candidates
            /\ addresses' = addresses \o jobs[j].pending.addresses
            /\ jobs' = [jobs EXCEPT ![j] = MarkFailed(jobs[j])]
    /\ UNCHANGED <<last, score_call, lead_call, date_call, relationships, norm_call,
                   sources, queue>>

\* the next step of the task of job j
TaskStep(j) ==
    \/ StartTask(j)
    \/ NextSource(j)
    \/ ResolvePerson(j)
    \/ CommitPerson(j)
    \/ CompleteTask(j)
    \/ FailTask(j)

NextIngest ==
    \/ \E request \in Requests, broker_up \in BOOLEAN : ingest_records(request, broker_up)
    \/ \E j \in JobIds : TaskStep(j)

SpecIngest == InitIngest /\ [][NextIngest]_vars

----------------------------------------------------------------------------
(* Properties of SpecIngest                                                   *)

\* the i-th source of job j is a census payload without household_members
WithoutMembers(j, i) ==
    /\ jobs[j].source_type = "census"
    /\ "household_members" \notin
           DOMAIN RowById(sources, jobs[j].source_ids[i]).record_data

\* the raw records and addresses of a source, committed or pending in a session
RowsOfSource(source_id) ==
    LET OfIt(rows) == {i \in 1..Len(rows) : rows[i].source_id = source_id}
    IN  Cardinality(OfIt(raw_records)) + Cardinality(OfIt(addresses))
        + Cardinality(UNION {{<<j, "raw", i>> : i \in OfIt(jobs[j].pending.raw)}
                             \cup {<<j, "address", i>> :
                                      i \in OfIt(jobs[j].pending.addresses)} :
                             j \in DOMAIN jobs})

\* the committed raw records of a source, by their ids
RawIdsOfSource(source_id) ==
    {raw_records[i].id : i \in {h \in 1..Len(raw_records) :
                                   raw_records[h].source_id = source_id}}

\* the household members a census source lists
MembersOf(source_id) ==
    Len(Get(RowById(sources, source_id).record_data, "household_members", <<>>))

\* C24: a census source without a household-members list gives no raw record
\* and no address (and with them no person), does not fail the job, and the
\* sources after it are processed in order: once the job is done every source
\* has one raw record per member, later sources under later ids
C24_CensusWithoutMembers ==
    \A j \in DOMAIN jobs : \A i \in 1..Len(jobs[j].source_ids) :
        WithoutMembers(j, i) =>
            /\ RowsOfSource(jobs[j].source_ids[i]) = 0
            /\ jobs[j].status /= "failed"
            /\ jobs[j].pc \notin {"except", "raised"}
            /\ jobs[j].pc = "done" =>
                   /\ jobs[j].status = "completed"
                   /\ \A h \in 1..Len(jobs[j].source_ids) :
                          Cardinality(RawIdsOfSource(jobs[j].source_ids[h]))
                              = MembersOf(jobs[j].source_ids[h])
                   /\ \A h, g \in 1..Len(jobs[j].source_ids) :
                          h < g =>
                              \A a \in RawIdsOfSource(jobs[j].source_ids[h]),
                                 b \in RawIdsOfSource(jobs[j].source_ids[g]) : a < b

\* a census job whose first source has no list completed with the raw record of
\* the member of its second source
C24_Witness ==
    \E j \in DOMAIN jobs :
        /\ WithoutMembers(j, 1)
        /\ jobs[j].status = "completed"
        /\ Len(jobs[j].source_ids) = 2
        /\ Cardinality(RawIdsOfSource(jobs[j].source_ids[2])) = 1

\* the task of a job has ended: it returned or an exception left it
TaskEnded(job) == job.pc \in {"done", "raised"}

\* C25: every job that starts running reaches completed or failed and never
\* stays running forever.  Only the task of a job writes its status and a
\* worker runs a task once, to its end, so the job reaches a terminal status
\* exactly if it has one when its task has ended
C25_BatchTermination ==
    \A j \in DOMAIN jobs :
        TaskEnded(jobs[j]) => jobs[j].status \in {"completed", "failed"}

\* C26: in every committed state every RawPersonRecord is processed and its
\* matched_person_id is the id of a stored person
C26_RawRecordsResolved ==
    \A i \in 1..Len(raw_records) :
        /\ raw_records[i].processed
        /\ raw_records[i].matched_person_id \in IdsOf(persons)

\* a status keeps its value or moves pending -> running -> completed | failed
StatusMoves(before, after) ==
    before /= after =>
        <<before, after>> \in {<<"pending", "running">>, <<"running", "completed">>,
                               <<"running", "failed">>}

\* completed_at is set exactly in a terminal status
CompletedAtSet(job) ==
    job.completed_at /= None <=> job.status \in {"completed", "failed"}

\* C28: a job is created pending, its status only moves pending -> running ->
\* completed or pending -> running -> failed, a terminal status never changes,
\* and completed_at is set exactly when the status is terminal
C28_JobStatusMachine ==
    [][\A j \in DOMAIN jobs' :
           /\ CompletedAtSet(jobs'[j])
           /\ IF j \in DOMAIN jobs
              THEN StatusMoves(jobs[j].status, jobs'[j].status)
              ELSE jobs'[j].status = "pending"]_vars

\* one job is completed and one failed, each with its completed_at
C28_Witness ==
    \E j, h \in DOMAIN jobs :
        /\ jobs[j].status = "completed" /\ jobs[j].completed_at = utcnow
        /\ jobs[h].status = "failed" /\ jobs[h].completed_at = utcnow

\* C29: records_processed never exceeds total_records, whatever the source type
C29_ProgressBounded ==
    \A j \in DOMAIN jobs : jobs[j].records_processed <= jobs[j].total_records

\* C30: a request that failed left no ProcessingJob and no Source persisted, and
\* every persisted pending job has its task on the queue
C30_IngestAllOrNothing ==
    /\ \A j \in DOMAIN jobs :
           /\ jobs[j].response /= "500"
           /\ jobs[j].status = "pending" => \E task \in queue : task.job_id = j
    /\ \A i \in 1..Len(sources) :
           \E j \in DOMAIN jobs :
               /\ jobs[j].response /= "500"
               /\ \E h \in 1..Len(jobs[j].source_ids) :
                      jobs[j].source_ids[h] = sources[i].id

====
